---- MODULE Spec2Model ----
(***************************************************************************)
(* A model of the analysis pipeline of the code review assistant:          *)
(*   - the issue aggregator of AIAnalysisService (deduplication,           *)
(*     prioritization, quality scores),                                    *)
(*   - the unified diff parser (DiffParser),                               *)
(*   - the Python AST analyzer (ASTAnalyzer), run alone and by two         *)
(*     concurrent callers,                                                 *)
(*   - AIAnalysisService.analyze_file with the SecurityAnalyzer.           *)
(* Each part has its own specification over its own variables; the        *)
(* variables of the other parts stay at their idle value.                  *)
(*                                                                         *)
(* Numbers: confidence scores and quality scores are counted in            *)
(* hundredths (0.8 is 80, 10.0 is 1000).                                   *)
(***************************************************************************)
EXTENDS Integers, Sequences, FiniteSets, TLC

VARIABLES
    \* ---- issue aggregator (analyze_file lines 133-135) ----
    agg_pc,          \* "collected" | "deduplicated" | "prioritized"
    issues,          \* the issue list handed to _deduplicate_issues
    unique_issues,   \* the list _deduplicate_issues returned
    sorted_issues,   \* the list _prioritize_issues returned
    \* ---- calculate_quality_metrics ----
    score_pc,        \* "call" | "returned"
    score_issues,    \* its issues argument
    total_files,     \* its total_files argument
    metrics          \* the dictionary it returned

aggVars   == <<agg_pc, issues, unique_issues, sorted_issues>>
scoreVars == <<score_pc, score_issues, total_files, metrics>>

Idle == "idle"

(***************************************************************************)
(* Bounds of the model.                                                    *)
(***************************************************************************)
MaxIssues == 3   \* longest issue list handed to the aggregator
MaxKinds  == 2   \* issues of a scored list before repetition
MaxRepeat == 4   \* how often the scored list repeats its issues
MaxFiles  == 3   \* largest total_files handed to the scoring

(***************************************************************************)
(* Helpers on sequences.                                                   *)
(***************************************************************************)
RECURSIVE SeqsUpTo(_, _)
SeqsUpTo(S, n) ==
    IF n = 0 THEN {<<>>}
    ELSE LET shorter == SeqsUpTo(S, n - 1)
         IN  shorter \cup {Append(s, x) : s \in {t \in shorter : Len(t) = n - 1}, x \in S}

RECURSIVE Repeat(_, _)
Repeat(s, k) == IF k = 0 THEN <<>> ELSE s \o Repeat(s, k - 1)

\* sum(1 for i in s if P(i))
Count(s, P(_)) == Cardinality({i \in 1..Len(s) : P(s[i])})

InList(x, list) == \E i \in 1..Len(list) : list[i] = x

Max(a, b) == IF a >= b THEN a ELSE b
Min(a, b) == IF a <= b THEN a ELSE b

(***************************************************************************)
(* Issues.  IssueSeverity is a str enum: a member compares and hashes      *)
(* equal to its value, so "high" and IssueSeverity.HIGH are one value.     *)
(***************************************************************************)
CRITICAL == "critical"
HIGH     == "high"
MEDIUM   == "medium"
LOW      == "low"
IssueSeverity == {LOW, MEDIUM, HIGH, CRITICAL}

\* The issues the aggregator is fed in the model: three categories (so three
\* identities on one line of one file), every severity, two confidences.
AggIssues ==
    [title : {"Hardcoded Credential"}, file_path : {"a.py"}, line_start : {1},
     category : {"security", "code_quality", "performance"},
     severity : IssueSeverity, confidence_score : {80, 90}]

\* The issues the scoring is fed: every severity and every category the
\* scores count, and one they do not.
ScoreIssues ==
    [title : {"Hardcoded Credential"}, file_path : {"a.py"}, line_start : {1},
     category : {"security", "performance", "maintainability", "code_quality"},
     severity : IssueSeverity, confidence_score : {80}]

(***************************************************************************)
(* AIAnalysisService._deduplicate_issues                                   *)
(***************************************************************************)
issue_key(issue) ==
    <<issue.title, issue.file_path, issue.line_start, issue.category>>

RECURSIVE DedupLoop(_, _, _)
\* the for loop: seen is the set of keys, unique the list built so far
DedupLoop(rest, seen, unique) ==
    IF rest = <<>> THEN unique
    ELSE LET issue == Head(rest)
         IN  IF issue_key(issue) \notin seen
             THEN DedupLoop(Tail(rest), seen \cup {issue_key(issue)}, Append(unique, issue))
             ELSE DedupLoop(Tail(rest), seen, unique)

DedupKeepLast(list) ==
    \* mutant: the later duplicate replaces the earlier one in its place
    LET RECURSIVE Go(_, _)
        Go(rest, unique) ==
            IF rest = <<>> THEN unique
            ELSE LET issue == Head(rest)
                     hit == {i \in 1..Len(unique) : issue_key(unique[i]) = issue_key(issue)}
                 IN  IF hit = {}
                     THEN Go(Tail(rest), Append(unique, issue))
                     ELSE Go(Tail(rest), [unique EXCEPT ![CHOOSE i \in hit : TRUE] = issue])
    IN  Go(list, <<>>)

DedupAdjacent(list) ==
    \* mutant: an issue is compared with the one before it only
    LET RECURSIVE Go(_, _)
        Go(rest, unique) ==
            IF rest = <<>> THEN unique
            ELSE IF unique # <<>> /\ issue_key(unique[Len(unique)]) = issue_key(Head(rest))
                 THEN Go(Tail(rest), unique)
                 ELSE Go(Tail(rest), Append(unique, Head(rest)))
    IN  Go(list, <<>>)

_deduplicate_issues(list) == DedupLoop(list, {}, <<>>)

(***************************************************************************)
(* AIAnalysisService._prioritize_issues                                    *)
(***************************************************************************)
\* severity_order.get(issue['severity'], 1)
severity_order(sev) ==
    CASE sev = CRITICAL -> 4
      [] sev = HIGH     -> 3
      [] sev = MEDIUM   -> 2
      [] sev = LOW      -> 1
      [] OTHER          -> 1

priority_key(issue) == <<severity_order(issue.severity), issue.confidence_score>>

\* tuple comparison a < b of two (severity_score, confidence_score) keys
KeyLess(a, b) == a[1] < b[1] \/ (a[1] = b[1] /\ a[2] < b[2])

RECURSIVE InsertDesc(_, _)
\* sorted(..., reverse=True) is stable: x goes behind every element whose
\* key is not smaller than its own
InsertDesc(s, x) ==
    IF s = <<>> THEN <<x>>
    ELSE IF KeyLess(priority_key(Head(s)), priority_key(x))
         THEN <<x>> \o s
         ELSE <<Head(s)>> \o InsertDesc(Tail(s), x)

RECURSIVE SortedDesc(_, _)
SortedDesc(rest, acc) ==
    IF rest = <<>> THEN acc ELSE SortedDesc(Tail(rest), InsertDesc(acc, Head(rest)))

PrioritizeBySeverityOnly(list) ==
    \* mutant: the confidence score is left out of the sort key
    LET RECURSIVE Ins(_, _)
        Ins(s, x) ==
            IF s = <<>> THEN <<x>>
            ELSE IF severity_order(Head(s).severity) < severity_order(x.severity)
                 THEN <<x>> \o s
                 ELSE <<Head(s)>> \o Ins(Tail(s), x)
        RECURSIVE Go(_, _)
        Go(rest, acc) == IF rest = <<>> THEN acc ELSE Go(Tail(rest), Ins(acc, Head(rest)))
    IN  Go(list, <<>>)

PrioritizeTiesReversed(list) ==
    \* mutant: an issue goes in front of the issues whose key equals its own
    LET RECURSIVE Ins(_, _)
        Ins(s, x) ==
            IF s = <<>> THEN <<x>>
            ELSE IF KeyLess(priority_key(x), priority_key(Head(s)))
                 THEN <<Head(s)>> \o Ins(Tail(s), x)
                 ELSE <<x>> \o s
        RECURSIVE Go(_, _)
        Go(rest, acc) == IF rest = <<>> THEN acc ELSE Go(Tail(rest), Ins(acc, Head(rest)))
    IN  Go(list, <<>>)

_prioritize_issues(list) == SortedDesc(list, <<>>)

(***************************************************************************)
(* AIAnalysisService.calculate_quality_metrics                             *)
(***************************************************************************)
\* round(x, 2) of the rational n/d >= 0, in hundredths: the nearest
\* hundredth, a tie going to the even one
Round2(n, d) ==
    LET q == (100 * n) \div d
        r == (100 * n) % d
    IN  IF 2 * r > d THEN q + 1
        ELSE IF 2 * r < d THEN q
        ELSE IF q % 2 = 0 THEN q ELSE q + 1

ScoreUnclamped(half, files) ==
    \* mutant: the max(0, ...) is missing; a negative score rounds as -round(-x)
    LET f == Max(files, 1)
        n == 20 * f - half
    IN  IF n >= 0 THEN Round2(n, 2 * f) ELSE 0 - Round2(0 - n, 2 * f)

\* max(0, 10 - penalty / max(total_files, 1)) with penalty = half / 2,
\* rounded to two decimals
Score(half, files) ==
    LET f == Max(files, 1)
    IN  Round2(Max(0, 20 * f - half), 2 * f)

MetricsCarriedOver(list, files) ==
    \* mutant: the counts are kept in the service and grow from call to call
    LET Before(name) == IF metrics = <<>> THEN 0 ELSE metrics[name]
        Sev(sev) == Count(list, LAMBDA i : i.severity = sev)
        Cat(cat) == Count(list, LAMBDA i : i.category = cat)
        critical_count == Before("critical_issues") + Sev(CRITICAL)
        high_count == Before("high_issues") + Sev(HIGH)
        medium_count == Before("medium_issues") + Sev(MEDIUM)
        low_count == Before("low_issues") + Sev(LOW)
        security_count == Before("security_issues") + Cat("security")
        performance_count == Before("performance_issues") + Cat("performance")
        maintainability_count == Before("maintainability_issues") + Cat("maintainability")
    IN  [code_quality_score |->
             Score(6 * critical_count + 4 * high_count
                           + 2 * medium_count + low_count, files),
         security_score |-> Score(4 * security_count, files),
         maintainability_score |->
             Score(3 * maintainability_count + 4 * critical_count, files),
         performance_score |-> Score(3 * performance_count, files),
         total_issues |-> Before("total_issues") + Len(list),
         critical_issues |-> critical_count,
         high_issues |-> high_count,
         medium_issues |-> medium_count,
         low_issues |-> low_count,
         security_issues |-> security_count,
         performance_issues |-> performance_count,
         maintainability_issues |-> maintainability_count]

calculate_quality_metrics(list, files) ==
    LET IsCritical(i) == i.severity = CRITICAL
        IsHigh(i)     == i.severity = HIGH
        IsMedium(i)   == i.severity = MEDIUM
        IsLow(i)      == i.severity = LOW
        IsSecurity(i) == i.category = "security"
        IsPerformance(i) == i.category = "performance"
        IsMaintainability(i) == i.category = "maintainability"
        critical_count == Count(list, IsCritical)
        high_count     == Count(list, IsHigh)
        medium_count   == Count(list, IsMedium)
        low_count      == Count(list, IsLow)
        security_count == Count(list, IsSecurity)
        performance_count == Count(list, IsPerformance)
        maintainability_count == Count(list, IsMaintainability)
    IN  [code_quality_score |->
             Score(6 * critical_count + 4 * high_count
                           + 2 * medium_count + low_count, files),
         security_score |-> Score(4 * security_count, files),
         maintainability_score |->
             Score(3 * maintainability_count + 4 * critical_count, files),
         performance_score |-> Score(3 * performance_count, files),
         total_issues |-> Len(list),
         critical_issues |-> critical_count,
         high_issues |-> high_count,
         medium_issues |-> medium_count,
         low_issues |-> low_count,
         security_issues |-> security_count,
         performance_issues |-> performance_count,
         maintainability_issues |-> maintainability_count]

(***************************************************************************)
(* Idle values of the parts a specification does not run.                  *)
(***************************************************************************)
AggIdle ==
    /\ agg_pc = Idle /\ issues = <<>> /\ unique_issues = <<>> /\ sorted_issues = <<>>

ScoreIdle ==
    /\ score_pc = Idle /\ score_issues = <<>> /\ total_files = 0 /\ metrics = <<>>

(***************************************************************************)
(* The aggregator: analyze_file's last two steps on a collected list.      *)
(***************************************************************************)
AggInit ==
    /\ agg_pc = "collected"
    /\ issues \in SeqsUpTo(AggIssues, MaxIssues)
    /\ unique_issues = <<>>
    /\ sorted_issues = <<>>

Deduplicate ==
    /\ agg_pc = "collected"
    /\ unique_issues' = _deduplicate_issues(issues)
    /\ agg_pc' = "deduplicated"
    /\ UNCHANGED <<issues, sorted_issues>>

Prioritize ==
    /\ agg_pc = "deduplicated"
    /\ sorted_issues' = _prioritize_issues(unique_issues)
    /\ agg_pc' = "prioritized"
    /\ UNCHANGED <<issues, unique_issues>>


(***************************************************************************)
(* Claims about the aggregator.                                            *)
(***************************************************************************)
Keys(list) == {issue_key(list[i]) : i \in 1..Len(list)}
FirstIndex(list, key) ==
    CHOOSE i \in 1..Len(list) :
        /\ issue_key(list[i]) = key
        /\ \A j \in 1..(i - 1) : issue_key(list[j]) # key

\* C1: the list _deduplicate_issues returns holds exactly one issue for each
\* identity (title, file_path, line_start, category) of its input, that
\* issue is the first input occurrence of the identity, and the retained
\* issues stand in their input order.
C1_DedupKeepsFirstInOrder ==
    agg_pc \in {"deduplicated", "prioritized"} =>
        /\ Len(unique_issues) = Cardinality(Keys(issues))
        /\ \A key \in Keys(issues) :
               \E j \in 1..Len(unique_issues) :
                   /\ unique_issues[j] = issues[FirstIndex(issues, key)]
                   /\ \A k \in 1..Len(unique_issues) :
                          issue_key(unique_issues[k]) = key => k = j
        /\ \A j, k \in 1..Len(unique_issues) :
               j < k => FirstIndex(issues, issue_key(unique_issues[j]))
                          < FirstIndex(issues, issue_key(unique_issues[k]))

\* A list with a later duplicate that differs from the first occurrence has
\* been deduplicated.
C1_Witness ==
    /\ agg_pc = "deduplicated"
    /\ Len(unique_issues) = 2
    /\ \E i, j \in 1..Len(issues) :
           i < j /\ issue_key(issues[i]) = issue_key(issues[j]) /\ issues[i] # issues[j]

\* the ranks the claim names
ClaimRank(sev) ==
    IF sev = "critical" THEN 4 ELSE IF sev = "high" THEN 3
    ELSE IF sev = "medium" THEN 2 ELSE 1

\* C2: in the list _prioritize_issues returns every adjacent pair (a, b) has
\* rank(a) >= rank(b), and confidence(a) >= confidence(b) when the ranks are
\* equal.
C2_SortedBySeverityThenConfidence ==
    agg_pc = "prioritized" =>
        \A i \in 1..(Len(sorted_issues) - 1) :
            LET a == sorted_issues[i]
                b == sorted_issues[i + 1]
            IN  /\ ClaimRank(a.severity) >= ClaimRank(b.severity)
                /\ ClaimRank(a.severity) = ClaimRank(b.severity)
                       => a.confidence_score >= b.confidence_score

\* The sort moved an issue, and two neighbours of one rank differ in
\* confidence.
C2_Witness ==
    /\ agg_pc = "prioritized"
    /\ sorted_issues # unique_issues
    /\ \E i \in 1..(Len(sorted_issues) - 1) :
           /\ sorted_issues[i].severity = sorted_issues[i + 1].severity
           /\ sorted_issues[i].confidence_score > sorted_issues[i + 1].confidence_score

\* where an issue stands in a list that holds it once
PlaceIn(list, x) == CHOOSE i \in 1..Len(list) : list[i] = x

\* C13: the output of _prioritize_issues is a permutation of its input, and
\* two issues of equal (severity rank, confidence_score) stand in it in the
\* order they had in the input.  The input is a list without duplicates, so
\* every issue has one place.
C13_StablePermutation ==
    agg_pc = "prioritized" =>
        /\ Len(sorted_issues) = Len(unique_issues)
        /\ \A i \in 1..Len(unique_issues) : InList(unique_issues[i], sorted_issues)
        /\ \A i, j \in 1..Len(unique_issues) :
               (/\ i < j
                /\ ClaimRank(unique_issues[i].severity) = ClaimRank(unique_issues[j].severity)
                /\ unique_issues[i].confidence_score = unique_issues[j].confidence_score)
                   => PlaceIn(sorted_issues, unique_issues[i])
                          < PlaceIn(sorted_issues, unique_issues[j])

\* two issues tie, an issue of a higher rank stood behind them and was moved
\* to the front, and the two kept their order
C13_Witness ==
    /\ agg_pc = "prioritized"
    /\ Len(unique_issues) = 3
    /\ priority_key(unique_issues[1]) = priority_key(unique_issues[2])
    /\ unique_issues[1] # unique_issues[2]
    /\ KeyLess(priority_key(unique_issues[2]), priority_key(unique_issues[3]))
    /\ sorted_issues = <<unique_issues[3], unique_issues[1], unique_issues[2]>>

ScoreInit ==
    /\ score_pc = "call"
    /\ \E base \in SeqsUpTo(ScoreIssues, MaxKinds), k \in 1..MaxRepeat :
           score_issues = Repeat(base, k)
    /\ total_files \in 0..MaxFiles
    /\ metrics = <<>>

CalculateQualityMetrics ==
    /\ score_pc = "call"
    /\ metrics' = calculate_quality_metrics(score_issues, total_files)
    /\ score_pc' = "returned"
    /\ UNCHANGED <<score_issues, total_files>>

\* a further call on the same service, for the same files and another list;
\* the caller still holds the dictionary of the call before
CalculateAgain ==
    /\ score_pc = "returned"
    /\ score_issues' \in SeqsUpTo(ScoreIssues, 1)
    /\ score_pc' = "call"
    /\ UNCHANGED <<total_files, metrics>>

(***************************************************************************)
(* Claims about the scoring.                                               *)
(***************************************************************************)
ScoreNames ==
    {"code_quality_score", "security_score", "maintainability_score", "performance_score"}

\* C3: for every issue list and every file count F >= 1 each of the four
\* scores calculate_quality_metrics returns lies in [0, 10].
C3_ScoresWithinBounds ==
    (score_pc = "returned" /\ total_files >= 1) =>
        \A name \in ScoreNames : 0 <= metrics[name] /\ metrics[name] <= 1000

\* A call whose penalties exceed ten points per file: every score but one is
\* held at the lower end, the other stays at the upper end.
C3_Witness ==
    /\ score_pc = "returned"
    /\ total_files = 1
    /\ metrics.critical_issues >= 4
    /\ metrics.security_issues >= 6
    /\ metrics.code_quality_score = 0
    /\ metrics.security_score = 0
    /\ metrics.maintainability_score = 0
    /\ metrics.performance_score = 1000

\* the penalty of a list, doubled: the weights of the four scores
DoubledPenalty(name, list) ==
    LET Sev(sev) == Cardinality({i \in 1..Len(list) : list[i].severity = sev})
        Cat(cat) == Cardinality({i \in 1..Len(list) : list[i].category = cat})
    IN  CASE name = "code_quality_score" ->
                 6 * Sev(CRITICAL) + 4 * Sev(HIGH) + 2 * Sev(MEDIUM) + Sev(LOW)
          [] name = "security_score" -> 4 * Cat("security")
          [] name = "maintainability_score" ->
                 3 * Cat("maintainability") + 4 * Sev(CRITICAL)
          [] name = "performance_score" -> 3 * Cat("performance")

\* max(0, 10 - penalty / F) as the fraction n / d
ExactScore(name, list, F) ==
    [n |-> Max(0, 20 * F - DoubledPenalty(name, list)), d |-> 2 * F]

\* C12 (as stated): for F >= 1 each of the four scores is max(0, 10 -
\* penalty / F) itself, the penalty counted over the list passed in.
C12_ExactFormulas ==
    (score_pc = "returned" /\ total_files >= 1) =>
        \A name \in ScoreNames :
            metrics[name] * ExactScore(name, score_issues, total_files).d
                = 100 * ExactScore(name, score_issues, total_files).n

\* C12 (amended): for F >= 1 each of the four scores is max(0, 10 -
\* penalty / F) rounded to two decimals, that is a number of hundredths no
\* further than half a hundredth from it, the penalty counted over the list
\* passed in to this call, whatever was passed to the call before.
C12_RoundedFormulas ==
    (score_pc = "returned" /\ total_files >= 1) =>
        \A name \in ScoreNames :
            LET x == ExactScore(name, score_issues, total_files)
                off == metrics[name] * x.d - 100 * x.n
            IN  2 * off <= x.d /\ 2 * off >= 0 - x.d

\* a call for three files and a list of one medium issue has returned, which
\* may be a second call after one with more issues: 10 - 1/3 comes back as 9.67
C12_Witness ==
    /\ score_pc = "returned"
    /\ total_files = 3
    /\ Len(score_issues) = 1
    /\ score_issues[1].severity = MEDIUM
    /\ metrics.total_issues = 1
    /\ metrics.code_quality_score = 967

(***************************************************************************)
(* The diff parser.  A string is the tuple of its characters; a text is    *)
(* the tuple of its lines, as text.split('\n') gives them (so a text that  *)
(* ends with a newline has a last line "").                                *)
(***************************************************************************)
VARIABLES
    diff_pc,        \* "start" | "split" | "done"
    diff_text,      \* the argument of parse_diff, as lines
    files,          \* what _split_diff_by_files returned: texts
    diff_i,         \* the place of the loop over files
    parsed_files,   \* the files parsed so far
    diff_result     \* the dictionary parse_diff returned

diffVars == <<diff_pc, diff_text, files, diff_i, parsed_files, diff_result>>

MaxBodyLines == 3   \* lines after the hunk header of the first file

Lit ==
    [ S_diff_git |->      \* "diff --git"
          <<"d", "i", "f", "f", " ", "-", "-", "g", "i", "t">>,
      S_diff_git_a |->      \* "diff --git a/"
          <<"d", "i", "f", "f", " ", "-", "-", "g", "i", "t", " ", "a", "/">>,
      S_sp_b |->      \* " b/"
          <<" ", "b", "/">>,
      S_new_file_mode |->      \* "new file mode"
          <<"n", "e", "w", " ", "f", "i", "l", "e", " ", "m", "o", "d", "e">>,
      S_deleted_file_mode |->      \* "deleted file mode"
          <<"d", "e", "l", "e", "t", "e", "d", " ", "f", "i", "l", "e", " ", "m", "o", "d", "e">>,
      S_Binary_files |->      \* "Binary files"
          <<"B", "i", "n", "a", "r", "y", " ", "f", "i", "l", "e", "s">>,
      S_differ |->      \* "differ"
          <<"d", "i", "f", "f", "e", "r">>,
      S_index |->      \* "index"
          <<"i", "n", "d", "e", "x">>,
      S_minus3 |->      \* "---"
          <<"-", "-", "-">>,
      S_plus3 |->      \* "+++"
          <<"+", "+", "+">>,
      S_dev_null |->      \* "/dev/null"
          <<"/", "d", "e", "v", "/", "n", "u", "l", "l">>,
      S_at2 |->      \* "@@"
          <<"@", "@">>,
      S_at2_minus |->      \* "@@ -"
          <<"@", "@", " ", "-">>,
      S_sp_plus |->      \* " +"
          <<" ", "+">>,
      S_sp_at2 |->      \* " @@"
          <<" ", "@", "@">>,
      L_diff_foo |->      \* "diff --git a/foo.py b/foo.py"
          <<"d", "i", "f", "f", " ", "-", "-", "g", "i", "t", " ", "a", "/", "f", "o", "o", ".", "p", "y", " ", "b", "/", "f", "o", "o", ".", "p", "y">>,
      L_diff_bar |->      \* "diff --git a/bar.py b/bar.py"
          <<"d", "i", "f", "f", " ", "-", "-", "g", "i", "t", " ", "a", "/", "b", "a", "r", ".", "p", "y", " ", "b", "/", "b", "a", "r", ".", "p", "y">>,
      L_index |->      \* "index e69de29..4b825dc 100644"
          <<"i", "n", "d", "e", "x", " ", "e", "6", "9", "d", "e", "2", "9", ".", ".", "4", "b", "8", "2", "5", "d", "c", " ", "1", "0", "0", "6", "4", "4">>,
      L_old_foo |->      \* "--- a/foo.py"
          <<"-", "-", "-", " ", "a", "/", "f", "o", "o", ".", "p", "y">>,
      L_new_foo |->      \* "+++ b/foo.py"
          <<"+", "+", "+", " ", "b", "/", "f", "o", "o", ".", "p", "y">>,
      L_old_bar |->      \* "--- a/bar.py"
          <<"-", "-", "-", " ", "a", "/", "b", "a", "r", ".", "p", "y">>,
      L_new_bar |->      \* "+++ b/bar.py"
          <<"+", "+", "+", " ", "b", "/", "b", "a", "r", ".", "p", "y">>,
      L_old_null |->      \* "--- /dev/null"
          <<"-", "-", "-", " ", "/", "d", "e", "v", "/", "n", "u", "l", "l">>,
      L_new_mode |->      \* "new file mode 100644"
          <<"n", "e", "w", " ", "f", "i", "l", "e", " ", "m", "o", "d", "e", " ", "1", "0", "0", "6", "4", "4">>,
      L_hunk_1_2_1_3 |->      \* "@@ -1,2 +1,3 @@"
          <<"@", "@", " ", "-", "1", ",", "2", " ", "+", "1", ",", "3", " ", "@", "@">>,
      L_hunk_5_7 |->      \* "@@ -5 +7 @@ def f():"
          <<"@", "@", " ", "-", "5", " ", "+", "7", " ", "@", "@", " ", "d", "e", "f", " ", "f", "(", ")", ":">>,
      L_hunk_bad |->      \* "@@ -x,2 +1,3 @@"
          <<"@", "@", " ", "-", "x", ",", "2", " ", "+", "1", ",", "3", " ", "@", "@">>,
      L_ctx_a |->      \* " a = 1"
          <<" ", "a", " ", "=", " ", "1">>,
      L_add_b |->      \* "+b = 2"
          <<"+", "b", " ", "=", " ", "2">>,
      L_ctx_c |->      \* " c = 3"
          <<" ", "c", " ", "=", " ", "3">>,
      L_del_d |->      \* "-d = 4"
          <<"-", "d", " ", "=", " ", "4">>,
      L_add_pp |->      \* "+++i"
          <<"+", "+", "+", "i">>,
      L_nonl |->      \* "\ No newline"
          <<"\\", " ", "N", "o", " ", "n", "e", "w", "l", "i", "n", "e">>,
      L_commit |->      \* "commit 4b825dc"
          <<"c", "o", "m", "m", "i", "t", " ", "4", "b", "8", "2", "5", "d", "c">>,
      L_diff_nopath |->      \* "diff --git a/tmp b/"
          <<"d", "i", "f", "f", " ", "-", "-", "g", "i", "t", " ", "a", "/", "t", "m", "p", " ", "b", "/">>,
      L_add_binary |->      \* "+# Binary files differ"
          <<"+", "#", " ", "B", "i", "n", "a", "r", "y", " ", "f", "i", "l", "e", "s", " ", "d", "i", "f", "f", "e", "r">>,
      L_diff_logo |->      \* "diff --git a/logo.png b/logo.png"
          <<"d", "i", "f", "f", " ", "-", "-", "g", "i", "t", " ", "a", "/", "l", "o", "g", "o", ".", "p", "n", "g", " ", "b", "/", "l", "o", "g", "o", ".", "p", "n", "g">>,
      L_binary |->      \* "Binary files a/logo.png and b/logo.png differ"
          <<"B", "i", "n", "a", "r", "y", " ", "f", "i", "l", "e", "s", " ", "a", "/", "l", "o", "g", "o", ".", "p", "n", "g", " ", "a", "n", "d", " ", "b", "/", "l", "o", "g", "o", ".", "p", "n", "g", " ", "d", "i", "f", "f", "e", "r">>,
      L_deleted_mode |->      \* "deleted file mode 100644"
          <<"d", "e", "l", "e", "t", "e", "d", " ", "f", "i", "l", "e", " ", "m", "o", "d", "e", " ", "1", "0", "0", "6", "4", "4">>,
      L_empty |->      \* ""
          <<>> ]

None == <<"<None>">>             \* Python's None where a string may stand
Whitespace == {" ", "\t"}
Digits == {"0", "1", "2", "3", "4", "5", "6", "7", "8", "9"}

\* s[a:b] on 1-based, inclusive positions, empty when out of range
Sub(s, a, b) == IF a > b THEN <<>> ELSE SubSeq(s, Max(a, 1), Min(b, Len(s)))

\* s.startswith(p)
StartsWith(s, p) == Len(s) >= Len(p) /\ SubSeq(s, 1, Len(p)) = p

\* the positions at or after from where p occurs in s
Occurrences(s, p, from) ==
    {i \in from..(Len(s) - Len(p) + 1) : SubSeq(s, i, i + Len(p) - 1) = p}

\* p in s
Contains(s, p) == Occurrences(s, p, 1) # {}

SetMin(S) == CHOOSE x \in S : \A y \in S : x <= y
SetMax(S) == CHOOSE x \in S : \A y \in S : x >= y

\* s.lstrip(chars) and s.strip()
LStripChars(s, chars) ==
    LET keep == {i \in 1..Len(s) : s[i] \notin chars}
    IN  IF keep = {} THEN <<>> ELSE SubSeq(s, SetMin(keep), Len(s))

Strip(s) ==
    LET keep == {i \in 1..Len(s) : s[i] \notin Whitespace}
    IN  IF keep = {} THEN <<>> ELSE SubSeq(s, SetMin(keep), SetMax(keep))

\* line.split()[-1] of a line that is not blank
LastWord(s) ==
    LET t == Strip(s)
        gaps == {i \in 1..Len(t) : t[i] \in Whitespace}
    IN  IF gaps = {} THEN t ELSE SubSeq(t, SetMax(gaps) + 1, Len(t))

\* not text.strip() of a text given as lines
IsBlankText(text) == \A i \in 1..Len(text) : Strip(text[i]) = <<>>

\* int(digits)
DigitValue(c) ==
    CASE c = "0" -> 0 [] c = "1" -> 1 [] c = "2" -> 2 [] c = "3" -> 3 [] c = "4" -> 4
      [] c = "5" -> 5 [] c = "6" -> 6 [] c = "7" -> 7 [] c = "8" -> 8 [] c = "9" -> 9

RECURSIVE ParseInt(_)
ParseInt(s) ==
    IF s = <<>> THEN 0
    ELSE 10 * ParseInt(SubSeq(s, 1, Len(s) - 1)) + DigitValue(s[Len(s)])

\* the position behind the longest run of digits that starts at i: (\d+)
DigitsEnd(s, i) ==
    LET stops == {j \in i..Len(s) : s[j] \notin Digits}
    IN  IF stops = {} THEN Max(Len(s) + 1, i) ELSE SetMin(stops)

(***************************************************************************)
(* DiffParser._split_diff_by_files                                         *)
(***************************************************************************)
\* Where r'diff --git a/.*? b/.*?\n' matches in a line that a newline
\* follows: the leftmost "diff --git a/" with a " b/" behind it (0: nowhere).
\* The match runs to the end of the line and takes the newline.
HeaderStart(line) ==
    LET starts == {p \in Occurrences(line, Lit.S_diff_git_a, 1) :
                      Occurrences(line, Lit.S_sp_b, p + Len(Lit.S_diff_git_a)) # {}}
    IN  IF starts = {} THEN 0 ELSE SetMin(starts)

\* the lines of text in which the pattern matches: the last line has no
\* newline behind it
HeaderLines(text) == {i \in 1..(Len(text) - 1) : HeaderStart(text[i]) > 0}

\* re.findall(file_pattern, diff_text), each match without its newline
FindHeaders(text) ==
    LET RECURSIVE Go(_)
        Go(i) ==
            IF i >= Len(text) THEN <<>>
            ELSE IF HeaderStart(text[i]) > 0
                 THEN <<SubSeq(text[i], HeaderStart(text[i]), Len(text[i]))>> \o Go(i + 1)
                 ELSE Go(i + 1)
    IN  Go(1)

\* re.split(file_pattern, diff_text): the texts between the matches.  The
\* text before a match ends with what precedes the match in its line.
SplitOnHeaders(text) ==
    LET RECURSIVE Go(_, _)
        \* piece: the lines of the current piece, i: the next line of text
        Go(piece, i) ==
            IF i > Len(text) THEN <<piece>>
            ELSE IF i < Len(text) /\ HeaderStart(text[i]) > 0
                 THEN <<Append(piece, SubSeq(text[i], 1, HeaderStart(text[i]) - 1))>>
                          \o Go(<<>>, i + 1)
                 ELSE Go(Append(piece, text[i]), i + 1)
    IN  Go(<<>>, 1)

SplitKeepingFirst(text) ==
    \* mutant: the empty first element is not removed
    LET pieces == SplitOnHeaders(text)
        file_headers == FindHeaders(text)
    IN  [i \in 1..Len(pieces) |->
            IF i <= Len(file_headers) THEN <<file_headers[i]>> \o pieces[i] ELSE pieces[i]]

_split_diff_by_files(text) ==
    LET split == SplitOnHeaders(text)
        pieces == IF split # <<>> /\ IsBlankText(Head(split)) THEN Tail(split) ELSE split
        file_headers == FindHeaders(text)
    IN  [i \in 1..Len(pieces) |->
            IF i <= Len(file_headers) THEN <<file_headers[i]>> \o pieces[i] ELSE pieces[i]]

(***************************************************************************)
(* DiffParser._extract_file_info                                           *)
(***************************************************************************)
ADDED    == "added"
REMOVED  == "removed"
MODIFIED == "modified"

HeaderLinesChecked == 10   \* lines[:10]

\* not x, for a string or None
Falsy(x) == x = None \/ x = <<>>

\* re.match(r'diff --git a/(.*?) b/(.*)', line): the position of the first
\* " b/" behind "diff --git a/" (0: no match)
GitHeaderSplit(line) ==
    IF ~StartsWith(line, Lit.S_diff_git_a) THEN 0
    ELSE LET at == Occurrences(line, Lit.S_sp_b, Len(Lit.S_diff_git_a) + 1)
         IN  IF at = {} THEN 0 ELSE SetMin(at)

InfoStep(file_info, line) ==
    IF StartsWith(line, Lit.S_diff_git)
    THEN IF GitHeaderSplit(line) > 0
         THEN LET q == GitHeaderSplit(line)
                  old == Sub(line, Len(Lit.S_diff_git_a) + 1, q - 1)
                  new == Sub(line, q + Len(Lit.S_sp_b), Len(line))
              IN  [file_info EXCEPT !.old_file = old, !.new_file = new, !.file_path = new]
         ELSE file_info
    ELSE IF StartsWith(line, Lit.S_new_file_mode)
    THEN [file_info EXCEPT !.change_type = ADDED, !.mode_change = LastWord(line)]
    ELSE IF StartsWith(line, Lit.S_deleted_file_mode)
    THEN [file_info EXCEPT !.change_type = REMOVED, !.mode_change = LastWord(line)]
    ELSE IF Contains(line, Lit.S_Binary_files) /\ Contains(line, Lit.S_differ)
    THEN [file_info EXCEPT !.is_binary = TRUE]
    ELSE IF StartsWith(line, Lit.S_index)
    THEN file_info      \* the hashes are kept in keys parse_diff does not return
    ELSE IF StartsWith(line, Lit.S_minus3)
    THEN LET old_path == Strip(Sub(line, 5, Len(line)))
         IN  IF old_path # Lit.S_dev_null
             THEN [file_info EXCEPT !.old_file = LStripChars(old_path, {"a", "/"})]
             ELSE file_info
    ELSE IF StartsWith(line, Lit.S_plus3)
    THEN LET new_path == Strip(Sub(line, 5, Len(line)))
         IN  IF new_path # Lit.S_dev_null
             THEN [file_info EXCEPT
                      !.new_file = LStripChars(new_path, {"b", "/"}),
                      !.file_path = IF Falsy(file_info.file_path)
                                    THEN LStripChars(new_path, {"b", "/"})
                                    ELSE file_info.file_path]
             ELSE file_info
    ELSE file_info

RECURSIVE InfoLoop(_, _)
InfoLoop(file_info, lines) ==
    IF lines = <<>> THEN file_info ELSE InfoLoop(InfoStep(file_info, Head(lines)), Tail(lines))

\* the dictionary, or <<>> for None
_extract_file_info(lines) ==
    LET file_info == InfoLoop([file_path |-> None, old_file |-> None, new_file |-> None,
                               change_type |-> MODIFIED, is_binary |-> FALSE,
                               mode_change |-> None],
                              Sub(lines, 1, HeaderLinesChecked))
    IN  IF Falsy(file_info.file_path) THEN <<>> ELSE <<file_info>>

(***************************************************************************)
(* DiffParser._parse_hunk_header and _parse_hunks                          *)
(***************************************************************************)
\* re.match(r'@@ -(\d+)(?:,(\d+))? \+(\d+)(?:,(\d+))? @@(.*)', header_line):
\* <<the hunk>>, or <<>> for None
_parse_hunk_header(header_line) ==
    LET s  == header_line
        p1 == Len(Lit.S_at2_minus) + 1
        e1 == DigitsEnd(s, p1)
        c1 == Sub(s, e1, e1) = <<",">> /\ DigitsEnd(s, e1 + 1) > e1 + 1
        e2 == IF c1 THEN DigitsEnd(s, e1 + 1) ELSE e1
        p3 == e2 + Len(Lit.S_sp_plus)
        e3 == DigitsEnd(s, p3)
        c2 == Sub(s, e3, e3) = <<",">> /\ DigitsEnd(s, e3 + 1) > e3 + 1
        e4 == IF c2 THEN DigitsEnd(s, e3 + 1) ELSE e3
        matched ==
            /\ StartsWith(s, Lit.S_at2_minus)
            /\ e1 > p1
            /\ Sub(s, e2, e2 + Len(Lit.S_sp_plus) - 1) = Lit.S_sp_plus
            /\ e3 > p3
            /\ Sub(s, e4, e4 + Len(Lit.S_sp_at2) - 1) = Lit.S_sp_at2
    IN  IF ~matched THEN <<>>
        ELSE <<[old_start |-> ParseInt(Sub(s, p1, e1 - 1)),
                old_count |-> IF c1 THEN ParseInt(Sub(s, e1 + 1, e2 - 1)) ELSE 1,
                new_start |-> ParseInt(Sub(s, p3, e3 - 1)),
                new_count |-> IF c2 THEN ParseInt(Sub(s, e3 + 1, e4 - 1)) ELSE 1,
                context |-> Strip(Sub(s, e4 + Len(Lit.S_sp_at2), Len(s))),
                added_lines |-> <<>>,
                removed_lines |-> <<>>,
                context_lines |-> <<>>,
                no_newline |-> FALSE]>>

HunkLineSharedCursor(hunk, line) ==
    \* mutant: one cursor for the lines of all classes
    LET seen == Len(hunk.added_lines) + Len(hunk.removed_lines) + Len(hunk.context_lines)
    IN  IF StartsWith(line, <<"+">>) /\ ~StartsWith(line, Lit.S_plus3)
        THEN [hunk EXCEPT !.added_lines =
                 Append(@, [line_number |-> hunk.new_start + seen,
                            content |-> Sub(line, 2, Len(line))])]
        ELSE IF StartsWith(line, <<"-">>) /\ ~StartsWith(line, Lit.S_minus3)
        THEN [hunk EXCEPT !.removed_lines =
                 Append(@, [line_number |-> hunk.old_start + seen,
                            content |-> Sub(line, 2, Len(line))])]
        ELSE IF StartsWith(line, <<" ">>)
        THEN [hunk EXCEPT !.context_lines =
                 Append(@, [line_number |-> hunk.old_start + Len(hunk.context_lines),
                            content |-> Sub(line, 2, Len(line))])]
        ELSE IF StartsWith(line, <<"\\">>)
        THEN [hunk EXCEPT !.no_newline = TRUE]
        ELSE hunk

\* one line of the loop on an open hunk
HunkLine(hunk, line) ==
    IF StartsWith(line, <<"+">>) /\ ~StartsWith(line, Lit.S_plus3)
    THEN [hunk EXCEPT !.added_lines =
             Append(@, [line_number |-> hunk.new_start + Len(hunk.added_lines),
                        content |-> Sub(line, 2, Len(line))])]
    ELSE IF StartsWith(line, <<"-">>) /\ ~StartsWith(line, Lit.S_minus3)
    THEN [hunk EXCEPT !.removed_lines =
             Append(@, [line_number |-> hunk.old_start + Len(hunk.removed_lines),
                        content |-> Sub(line, 2, Len(line))])]
    ELSE IF StartsWith(line, <<" ">>)
    THEN [hunk EXCEPT !.context_lines =
             Append(@, [line_number |-> hunk.old_start + Len(hunk.context_lines),
                        content |-> Sub(line, 2, Len(line))])]
    ELSE IF StartsWith(line, <<"\\">>)
    THEN [hunk EXCEPT !.no_newline = TRUE]
    ELSE hunk

HunkLoopKeepingOpen(lines, hunks, current_hunk) ==
    \* mutant: a header that does not parse leaves the open hunk open
    LET RECURSIVE Go(_, _, _)
        Go(rest, closed, open) ==
            IF rest = <<>> THEN closed \o open
            ELSE LET line == Head(rest)
                 IN  IF StartsWith(line, Lit.S_at2)
                     THEN IF _parse_hunk_header(line) = <<>>
                          THEN Go(Tail(rest), closed, open)
                          ELSE Go(Tail(rest), closed \o open, _parse_hunk_header(line))
                     ELSE IF open # <<>>
                          THEN Go(Tail(rest), closed, <<HunkLine(open[1], line)>>)
                          ELSE Go(Tail(rest), closed, open)
    IN  Go(lines, hunks, current_hunk)

RECURSIVE HunkLoop(_, _, _)
\* hunks: the closed hunks; current_hunk: <<>> for None, else <<the hunk>>
HunkLoop(lines, hunks, current_hunk) ==
    IF lines = <<>> THEN hunks \o current_hunk
    ELSE LET line == Head(lines)
         IN  IF StartsWith(line, Lit.S_at2)
             THEN HunkLoop(Tail(lines), hunks \o current_hunk, _parse_hunk_header(line))
             ELSE IF current_hunk # <<>>
                  THEN HunkLoop(Tail(lines), hunks, <<HunkLine(current_hunk[1], line)>>)
                  ELSE HunkLoop(Tail(lines), hunks, current_hunk)

_parse_hunks(lines) == HunkLoop(lines, <<>>, <<>>)

(***************************************************************************)
(* DiffParser._parse_file_diff and parse_diff                              *)
(***************************************************************************)
RECURSIVE SumLen(_, _)
\* sum(len(x[field]) for x in s)
SumLen(s, field) == IF s = <<>> THEN 0 ELSE Len(Head(s)[field]) + SumLen(Tail(s), field)

RECURSIVE SumField(_, _)
\* sum(x[field] for x in s)
SumField(s, field) == IF s = <<>> THEN 0 ELSE Head(s)[field] + SumField(Tail(s), field)

ParseFileDiffCountingMarkedLines(file_diff) ==
    \* mutant: the statistics count the lines of the block that start with
    \* + or -, whether a hunk holds them or not
    LET lines == file_diff
        info  == _extract_file_info(lines)
        hunks == _parse_hunks(lines)
        additions == Cardinality({i \in 1..Len(lines) : StartsWith(lines[i], <<"+">>)})
        deletions == Cardinality({i \in 1..Len(lines) : StartsWith(lines[i], <<"-">>)})
    IN  IF info = <<>> THEN <<>>
        ELSE <<[file_path |-> info[1].file_path,
                old_file |-> info[1].old_file,
                new_file |-> info[1].new_file,
                change_type |-> info[1].change_type,
                is_binary |-> info[1].is_binary,
                hunks |-> hunks,
                additions |-> additions,
                deletions |-> deletions,
                changes |-> additions + deletions,
                file_mode_change |-> info[1].mode_change]>>

\* <<the parsed file>>, or <<>> for None
_parse_file_diff(file_diff) ==
    LET lines == file_diff
        info  == _extract_file_info(lines)
        hunks == _parse_hunks(lines)
        additions == SumLen(hunks, "added_lines")
        deletions == SumLen(hunks, "removed_lines")
    IN  IF info = <<>> THEN <<>>
        ELSE <<[file_path |-> info[1].file_path,
                old_file |-> info[1].old_file,
                new_file |-> info[1].new_file,
                change_type |-> info[1].change_type,
                is_binary |-> info[1].is_binary,
                hunks |-> hunks,
                additions |-> additions,
                deletions |-> deletions,
                changes |-> additions + deletions,
                file_mode_change |-> info[1].mode_change]>>

\* parse_diff's result dictionary
DiffResult(list) ==
    [files |-> list,
     total_files |-> Len(list),
     total_additions |-> SumField(list, "additions"),
     total_deletions |-> SumField(list, "deletions"),
     total_changes |-> SumField(list, "changes")]

_empty_diff_result == DiffResult(<<>>)

(***************************************************************************)
(* The diff texts of the model: an optional line before the first header,  *)
(* one file with one hunk header and up to MaxBodyLines lines behind it,   *)
(* further hunk headers among them, then nothing, a second file, or a file *)
(* without a path and the second file, and the final newline.              *)
(***************************************************************************)
BodyLines ==
    {Lit.L_ctx_a, Lit.L_add_b, Lit.L_ctx_c, Lit.L_del_d, Lit.L_add_pp, Lit.L_nonl,
     Lit.L_hunk_5_7, Lit.L_hunk_bad, Lit.L_add_binary}

FileHeaders ==
    {<<Lit.L_diff_foo, Lit.L_index, Lit.L_old_foo, Lit.L_new_foo>>,
     <<Lit.L_diff_foo, Lit.L_new_mode, Lit.L_index, Lit.L_old_null, Lit.L_new_foo>>}

HunkHeaders == {Lit.L_hunk_1_2_1_3, Lit.L_hunk_5_7, Lit.L_hunk_bad}

SecondFile == <<Lit.L_diff_bar, Lit.L_old_bar, Lit.L_new_bar, Lit.L_hunk_5_7, Lit.L_del_d, Lit.L_add_b>>

\* a file whose header names no new path and which has no +++ line
PathlessFile == <<Lit.L_diff_nopath, Lit.L_deleted_mode>>

\* a binary file, as git writes it
BinaryFile == <<Lit.L_diff_logo, Lit.L_index, Lit.L_binary>>

DiffTexts ==
    {<<Lit.L_empty>>, <<<<" ">>, Lit.L_empty>>}
    \cup {before \o header \o <<hunk_header>> \o body \o after \o <<Lit.L_empty>> :
            before \in {<<>>, <<Lit.L_commit>>},
            header \in FileHeaders,
            hunk_header \in HunkHeaders,
            body \in SeqsUpTo(BodyLines, MaxBodyLines),
            after \in {<<>>, SecondFile, PathlessFile \o SecondFile, BinaryFile}}

\* the patch of the round-trip test
KnownPatch ==
    <<Lit.L_diff_foo, Lit.L_index, Lit.L_old_foo, Lit.L_new_foo,
      Lit.L_hunk_1_2_1_3, Lit.L_ctx_a, Lit.L_add_b, Lit.L_ctx_c, Lit.L_empty>>

DiffInit ==
    /\ diff_pc = "start"
    /\ diff_text \in DiffTexts
    /\ files = <<>>
    /\ diff_i = 1
    /\ parsed_files = <<>>
    /\ diff_result = <<>>

DiffIdle ==
    /\ diff_pc = Idle /\ diff_text = <<>> /\ files = <<>> /\ diff_i = 1
    /\ parsed_files = <<>> /\ diff_result = <<>>

\* if not diff_text or not diff_text.strip(): return self._empty_diff_result()
ParseDiffEmpty ==
    /\ diff_pc = "start"
    /\ IsBlankText(diff_text)
    /\ diff_result' = _empty_diff_result
    /\ diff_pc' = "done"
    /\ UNCHANGED <<diff_text, files, diff_i, parsed_files>>

SplitDiffByFiles ==
    /\ diff_pc = "start"
    /\ ~IsBlankText(diff_text)
    /\ files' = _split_diff_by_files(diff_text)
    /\ diff_pc' = "split"
    /\ UNCHANGED <<diff_text, diff_i, parsed_files, diff_result>>

\* one round of: for file_diff in files
ParseFileDiff ==
    /\ diff_pc = "split"
    /\ diff_i <= Len(files)
    /\ parsed_files' = parsed_files \o _parse_file_diff(files[diff_i])
    /\ diff_i' = diff_i + 1
    /\ UNCHANGED <<diff_pc, diff_text, files, diff_result>>

ParseDiffReturn ==
    /\ diff_pc = "split"
    /\ diff_i > Len(files)
    /\ diff_result' = DiffResult(parsed_files)
    /\ diff_pc' = "done"
    /\ UNCHANGED <<diff_text, files, diff_i, parsed_files>>

(***************************************************************************)
(* Claims about the diff parser.                                           *)
(***************************************************************************)
S_foo_py == <<"f", "o", "o", ".", "p", "y">>

\* C4: parsing the known patch of foo.py yields exactly one file, foo.py,
\* modified, with 1 addition and 0 deletions and exactly one hunk with
\* old_start 1, old_count 2, new_start 1, new_count 3, whose single added
\* line carries the line number 2.
C4_KnownPatchRoundTrip ==
    (diff_pc = "done" /\ diff_text = KnownPatch) =>
        /\ Len(diff_result.files) = 1
        /\ LET f == diff_result.files[1]
           IN  /\ f.file_path = S_foo_py
               /\ f.change_type = "modified"
               /\ f.additions = 1
               /\ f.deletions = 0
               /\ Len(f.hunks) = 1
               /\ f.hunks[1].old_start = 1 /\ f.hunks[1].old_count = 2
               /\ f.hunks[1].new_start = 1 /\ f.hunks[1].new_count = 3
               /\ Len(f.hunks[1].added_lines) = 1
               /\ f.hunks[1].added_lines[1].line_number = 2

\* how many members the lists list[i][field] have together
Together(list, field) ==
    Cardinality(UNION {{<<i, k>> : k \in 1..Len(list[i][field])} : i \in 1..Len(list)})

\* the sum of the numbers list[i][field]
Total(list, field) ==
    Cardinality(UNION {{<<i, k>> : k \in 1..list[i][field]} : i \in 1..Len(list)})

\* C14: for every file of the result, additions is the number of added
\* lines of its hunks, deletions the number of removed lines of its hunks and
\* changes their sum; total_additions, total_deletions and total_changes are
\* the sums of these numbers over the files, and total_files is the number
\* of files listed.
C14_StatisticsAreSums ==
    diff_pc = "done" =>
        /\ \A i \in 1..Len(diff_result.files) :
               LET f == diff_result.files[i]
               IN  /\ f.additions = Together(f.hunks, "added_lines")
                   /\ f.deletions = Together(f.hunks, "removed_lines")
                   /\ f.changes = f.additions + f.deletions
        /\ diff_result.total_files = Len(diff_result.files)
        /\ diff_result.total_additions = Total(diff_result.files, "additions")
        /\ diff_result.total_deletions = Total(diff_result.files, "deletions")
        /\ diff_result.total_changes = Total(diff_result.files, "changes")

\* two files came out; the first has two hunks, one with an added and one
\* with a removed line, and the second file adds to the totals
C14_Witness ==
    /\ diff_pc = "done"
    /\ Len(diff_result.files) = 2
    /\ Len(diff_result.files[1].hunks) = 2
    /\ diff_result.files[1].hunks[1].added_lines # <<>>
    /\ diff_result.files[1].hunks[2].removed_lines # <<>>
    /\ diff_result.files[1].changes = 2
    /\ diff_result.total_additions = 2
    /\ diff_result.total_deletions = 2
    /\ diff_result.total_changes = 4

(***************************************************************************)
(* The files analyze_file is given.  A content is a sequence of top-level  *)
(* Python statements; its text is what unparsing them gives, one or more   *)
(* lines a statement, and its syntax tree is what ast.parse makes of that   *)
(* text.  The rules below are the ones the statements of StmtUniverse can  *)
(* set off; the other rules of the analyzers (classes, return statements,  *)
(* default arguments, comparisons, '%' formatting, augmented assignments,   *)
(* global statements, asserts, subprocess calls, and the regular           *)
(* expressions about execute, subprocess, hashlib, random, pickle and      *)
(* debug) find nothing in these texts.                                     *)
(***************************************************************************)
VARIABLES
    heap,           \* the list objects made so far, by identity
    self_issues,    \* ASTAnalyzer.issues: the identity of a list in heap
    an_pc,          \* per caller of analyze: "off" | "call" | "run" | "done"
    an_tree,        \* per caller: the tree it passed
    an_todo,        \* per caller: the issues its traversals have yet to add
    an_raise,       \* per caller: a traversal raises once an_todo is empty
    an_result       \* per caller: the identity of the list analyze returned

astVars == <<heap, self_issues, an_pc, an_tree, an_todo, an_raise, an_result>>

VARIABLES
    file_pc,        \* "call" | "returned"
    file_path,      \* the arguments of analyze_file
    file_content,
    rules,
    openai_client,  \* <<>> for None, else <<the issues the provider answers>>
    quality_classifier,  \* <<>> for None, else <<label, score>> of every chunk
    file_result     \* the list analyze_file returned

fileVars == <<file_pc, file_path, file_content, rules, openai_client,
              quality_classifier, file_result>>

MaxStmts == 2       \* statements of a content

Py ==
    [ password |-> <<"p", "a", "s", "s", "w", "o", "r", "d">>,
      secret |-> <<"s", "e", "c", "r", "e", "t">>,
      key |-> <<"k", "e", "y">>,
      token |-> <<"t", "o", "k", "e", "n">>,
      api_key |-> <<"a", "p", "i", "_", "k", "e", "y">>,
      eval |-> <<"e", "v", "a", "l">>,
      exec |-> <<"e", "x", "e", "c">>,
      test |-> <<"t", "e", "s", "t">>,
      test_ |-> <<"t", "e", "s", "t", "_">>,
      _test_py |-> <<"_", "t", "e", "s", "t", ".", "p", "y">>,
      def_ |-> <<"d", "e", "f", " ">>,
      async_def |-> <<"a", "s", "y", "n", "c", " ", "d", "e", "f", " ">>,
      params |-> <<"(", "x", ")", ":">>,
      assign |-> <<" ", "=", " ">>,
      call |-> <<"(", "x", ")">>,
      if_ |-> <<" ", " ", " ", " ", "i", "f", " ", "x", ":">>,
      pass_ |-> <<" ", " ", " ", " ", " ", " ", " ", " ", "p", "a", "s", "s">>,
      while_ |-> <<" ", " ", " ", " ", "w", "h", "i", "l", "e", " ", "x", ":">>,
      for_ |-> <<" ", " ", " ", " ", "f", "o", "r", " ", "i", " ", "i", "n", " ", "x", ":">>,
      with_ |-> <<" ", " ", " ", " ", "w", "i", "t", "h", " ", "x", ":">>,
      try_ |-> <<" ", " ", " ", " ", "t", "r", "y", ":">>,
      except_ |-> <<" ", " ", " ", " ", "e", "x", "c", "e", "p", "t", ":">>,
      boolop |-> <<" ", " ", " ", " ", "x", " ", "a", "n", "d", " ", "x", " ", "a", "n", "d", " ", "x">>,
      docstring |-> <<" ", " ", " ", " ", "\"", "\"", "\"", "d", "\"", "\"", "\"">>,
      deep |-> <<" ", " ", " ", " ", "y", " ", "=", " ", "x", "+", "x">>,
      invalid |-> <<"d", "e", "f", " ", "f", "(", ":">>,
      too_deep |-> <<"x", " ", "=", " ", "1", "+", "1">>,
      comment |-> <<"#">>,
      blank |-> <<" ", "\t">>,
      f |-> <<"f">>,
      g |-> <<"g">>,
      x |-> <<"x">>,
      abc |-> <<"a", "b", "c">>,
      digits8 |-> <<"1", "2", "3", "4", "5", "6", "7", "8">>,
      supersecret123 |-> <<"s", "u", "p", "e", "r", "s", "e", "c", "r", "e", "t", "1", "2", "3">>,
      n42 |-> <<"4", "2">>,
      app_py |-> <<"a", "p", "p", ".", "p", "y">>,
      test_app_py |-> <<"t", "e", "s", "t", "_", "a", "p", "p", ".", "p", "y">>,
      notes_txt |-> <<"n", "o", "t", "e", "s", ".", "t", "x", "t">>,
      py |-> <<".", "p", "y">>,
      requirement |-> <<"r", "e", "q", "u", "e", "s", "t", "s", "=", "=", "2", ".", "2", "5", ".", "0">>,
      requirements_txt |-> <<"r", "e", "q", "u", "i", "r", "e", "m", "e", "n", "t", "s", ".", "t", "x", "t">>,
      package_json |-> <<"p", "a", "c", "k", "a", "g", "e", ".", "j", "s", "o", "n">>,
      setup_py |-> <<"s", "e", "t", "u", "p", ".", "p", "y">>,
      env |-> <<".", "e", "n", "v">> ]

Quotes == {"\"", "'"}
WordChars ==
    {"a", "b", "c", "d", "e", "f", "g", "h", "i", "j", "k", "l", "m", "n", "o", "p",
     "q", "r", "s", "t", "u", "v", "w", "x", "y", "z", "_"} \cup Digits

RECURSIVE Flatten(_)
\* the concatenation of a sequence of sequences
Flatten(ss) == IF ss = <<>> THEN <<>> ELSE Head(ss) \o Flatten(Tail(ss))

RECURSIVE SumSeq(_)
SumSeq(ns) == IF ns = <<>> THEN 0 ELSE Head(ns) + SumSeq(Tail(ns))

\* A statement: type is the class of its ast node, or "<invalid>" for a line
\* the parser rejects, "<requirement>" for the line requests==2.25.0 of a
\* requirements file (which the parser rejects too), "<too deep>" for an
\* expression of 3000 operands (valid Python on which ast.parse raises
\* RecursionError), "<comment>" for a comment line of more than 1 MiB and
\* "<blank>" for a line of white space.  body lists the compound
\* statements of a function ("If",
\* "While", "For", "With", "Try" with a bare except, "BoolOp" of three
\* operands); deep says that the function ends with an assignment of a sum
\* of 1500 operands, which ast.parse accepts and ast.dump cannot walk; extra
\* counts the characters of the statement that its lines leave out.
Statement(type, name, doc, body, deep, value_type, value, extra) ==
    [type |-> type, name |-> name, doc |-> doc, body |-> body, deep |-> deep,
     value_type |-> value_type, value |-> value, extra |-> extra]

FunctionStmt(type, name, doc, body, deep) ==
    Statement(type, name, doc, body, deep, "", <<>>, IF deep THEN 2998 ELSE 0)

AssignStmt(name, value_type, value) ==
    Statement("Assign", name, FALSE, <<>>, FALSE, value_type, value, 0)

Ifs(n) == [i \in 1..n |-> "If"]

Stmt ==
    [ F9 |-> FunctionStmt("FunctionDef", Py.f, FALSE, Ifs(9), FALSE),
      F10 |-> FunctionStmt("FunctionDef", Py.f, FALSE, Ifs(10), FALSE),
      F11 |-> FunctionStmt("FunctionDef", Py.f, FALSE, Ifs(11), FALSE),
      AF11 |-> FunctionStmt("AsyncFunctionDef", Py.f, FALSE, Ifs(11), FALSE),
      FMix |-> FunctionStmt("FunctionDef", Py.g, TRUE,
                   <<"While", "For", "With", "Try", "BoolOp">> \o Ifs(5), FALSE),
      FDeep |-> FunctionStmt("FunctionDef", Py.f, FALSE, Ifs(11), TRUE),
      PwdShort |-> AssignStmt(Py.password, "str", Py.abc),
      Pwd8 |-> AssignStmt(Py.password, "str", Py.digits8),
      PwdLong |-> AssignStmt(Py.password, "str", Py.supersecret123),
      Num |-> AssignStmt(Py.x, "int", Py.n42),
      Eval |-> Statement("Expr", Py.eval, FALSE, <<>>, FALSE, "", <<>>, 0),
      Invalid |-> Statement("<invalid>", <<>>, FALSE, <<>>, FALSE, "", <<>>, 0),
      TooDeep |-> Statement("<too deep>", <<>>, FALSE, <<>>, FALSE, "", <<>>, 5998),
      Comment |-> Statement("<comment>", <<>>, FALSE, <<>>, FALSE, "", <<>>, 1048576),
      Req |-> Statement("<requirement>", <<>>, FALSE, <<>>, FALSE, "", <<>>, 0),
      Blank |-> Statement("<blank>", <<>>, FALSE, <<>>, FALSE, "", <<>>, 0) ]

StmtUniverse == {Stmt[k] : k \in DOMAIN Stmt}
NodeTypes == {"FunctionDef", "AsyncFunctionDef", "Assign", "Expr"}
Functions == {"FunctionDef", "AsyncFunctionDef"}

\* the lines of a compound statement of a function body
ConstructLines(tag) ==
    CASE tag = "If" -> <<Py.if_, Py.pass_>>
      [] tag = "While" -> <<Py.while_, Py.pass_>>
      [] tag = "For" -> <<Py.for_, Py.pass_>>
      [] tag = "With" -> <<Py.with_, Py.pass_>>
      [] tag = "Try" -> <<Py.try_, Py.pass_, Py.except_, Py.pass_>>
      [] tag = "BoolOp" -> <<Py.boolop>>

\* the text of a statement, as lines
StmtLines(s) ==
    CASE s.type \in Functions ->
            <<(IF s.type = "FunctionDef" THEN Py.def_ ELSE Py.async_def)
                  \o s.name \o Py.params>>
            \o (IF s.doc THEN <<Py.docstring>> ELSE <<>>)
            \o Flatten([i \in 1..Len(s.body) |-> ConstructLines(s.body[i])])
            \o (IF s.deep THEN <<Py.deep>> ELSE <<>>)
      [] s.type = "Assign" ->
            <<s.name \o Py.assign
                \o (IF s.value_type = "str" THEN <<"\"">> \o s.value \o <<"\"">>
                    ELSE s.value)>>
      [] s.type = "Expr" -> <<s.name \o Py.call>>
      [] s.type = "<invalid>" -> <<Py.invalid>>
      [] s.type = "<too deep>" -> <<Py.too_deep>>
      [] s.type = "<comment>" -> <<Py.comment>>
      [] s.type = "<requirement>" -> <<Py.requirement>>
      [] s.type = "<blank>" -> <<Py.blank>>

\* file_content.split('\n'): every statement ends with a newline
ContentLines(content) ==
    Flatten([i \in 1..Len(content) |-> StmtLines(content[i])]) \o <<<<>>>>

\* the line a statement starts on
LineOf(content, i) ==
    1 + SumSeq([j \in 1..(i - 1) |-> Len(StmtLines(content[j]))])

\* len(file_content)
ContentLength(content) ==
    LET lines == ContentLines(content)
    IN  SumSeq([i \in 1..Len(lines) |-> Len(lines[i])]) + (Len(lines) - 1)
          + SumSeq([i \in 1..Len(content) |-> content[i].extra])

\* ast.parse(file_content): the exception it raises, or the tree, which is
\* the nodes of the module body with their line numbers
ast_parse(content) ==
    LET bad == {i \in 1..Len(content) : content[i].type \in {"<invalid>", "<requirement>"}}
        deep == {i \in 1..Len(content) : content[i].type = "<too deep>"}
        nodes == {i \in 1..Len(content) : content[i].type \in NodeTypes}
        Nth(k) == CHOOSE i \in nodes : Cardinality({j \in nodes : j < i}) = k - 1
    IN  IF bad # {}
        THEN [raises |-> "SyntaxError", lineno |-> LineOf(content, SetMin(bad)),
              tree |-> <<>>]
        ELSE IF deep # {}
        THEN [raises |-> "RecursionError", lineno |-> 0, tree |-> <<>>]
        ELSE [raises |-> "", lineno |-> 0,
              tree |-> [k \in 1..Cardinality(nodes) |->
                          [node |-> content[Nth(k)],
                           lineno |-> LineOf(content, Nth(k))]]]

(***************************************************************************)
(* ASTAnalyzer                                                             *)
(***************************************************************************)
\* _add_issue: the dictionary it appends (description, suggested_fix and
\* code_snippet are left out)
_add_issue(title, severity, rule_id, line_number) ==
    [title |-> title, severity |-> severity, rule_id |-> rule_id,
     line_number |-> line_number, line_end |-> line_number, confidence |-> 80]

\* what one compound statement adds in _calculate_cyclomatic_complexity
ComplexityOf(tag) ==
    CASE tag \in {"If", "While", "For", "With"} -> 1
      [] tag = "Try" -> 1        \* its one ExceptHandler
      [] tag = "BoolOp" -> 2     \* len(child.values) - 1

_calculate_cyclomatic_complexity(node) ==
    1 + SumSeq([i \in 1..Len(node.body) |-> ComplexityOf(node.body[i])])

\* node.end_lineno - node.lineno
FunctionLength(node) == Len(StmtLines(node)) - 1

\* _analyze_complexity: the issues of one node of the walk
ComplexityIssues(n) ==
    IF n.node.type # "FunctionDef" THEN <<>>
    ELSE (IF _calculate_cyclomatic_complexity(n.node) > 10
          THEN <<_add_issue("High Cyclomatic Complexity", MEDIUM,
                            "high_complexity", n.lineno)>>
          ELSE <<>>)
         \o (IF FunctionLength(n.node) > 50
             THEN <<_add_issue("Long Function", LOW, "long_function", n.lineno)>>
             ELSE <<>>)

_analyze_complexity(tree) ==
    [issues |-> Flatten([i \in 1..Len(tree) |-> ComplexityIssues(tree[i])]),
     raises |-> FALSE]

\* _check_duplicate_code: ast.dump(node) recurses once per level of the
\* expression and raises RecursionError on the sum of 1500 operands
_check_duplicate_code(node) == node.deep

\* the magic numbers of one node: the Constant is below the node, so the
\* walk reaches it after every node of the module body
MagicNumberIssues(n) ==
    IF /\ n.node.type = "Assign"
       /\ n.node.value_type = "int"
       /\ ParseInt(n.node.value) \notin {0, 1, -1}
    THEN <<_add_issue("Magic Number", LOW, "magic_number", n.lineno)>>
    ELSE <<>>

_analyze_code_smells(tree) ==
    LET raises == \E i \in 1..Len(tree) :
                      tree[i].node.type = "FunctionDef" /\ _check_duplicate_code(tree[i].node)
    IN  [issues |-> IF raises THEN <<>>
                    ELSE Flatten([i \in 1..Len(tree) |-> MagicNumberIssues(tree[i])]),
         raises |-> raises]

\* not ast.get_docstring(node) and not node.name.startswith('_')
DocstringIssues(n) ==
    IF /\ n.node.type = "FunctionDef"
       /\ ~n.node.doc
       /\ ~StartsWith(n.node.name, <<"_">>)
    THEN <<_add_issue("Missing Docstring", LOW, "missing_docstring", n.lineno)>>
    ELSE <<>>

_analyze_best_practices(tree) ==
    [issues |-> Flatten([i \in 1..Len(tree) |-> DocstringIssues(tree[i])]),
     raises |-> FALSE]

\* _check_unused_variables: y of the deep assignment is never read
UnusedVariableIssues(n) ==
    IF n.node.type = "FunctionDef" /\ n.node.deep
    THEN <<_add_issue("Unused Variable", LOW, "unused_variable", n.lineno)>>
    ELSE <<>>

\* the line a compound statement of a function body starts on
ConstructLine(n, k) ==
    n.lineno + (IF n.node.doc THEN 1 ELSE 0)
      + SumSeq([j \in 1..(k - 1) |-> Len(ConstructLines(n.node.body[j]))]) + 1

\* the bare except clauses of one function, each on the line of its except
BareExceptIssues(n) ==
    IF n.node.type \notin Functions THEN <<>>
    ELSE Flatten([k \in 1..Len(n.node.body) |->
             IF n.node.body[k] = "Try"
             THEN <<_add_issue("Bare Except Clause", HIGH, "bare_except",
                               ConstructLine(n, k) + 2)>>
             ELSE <<>>])

_analyze_potential_bugs(tree) ==
    [issues |-> Flatten([i \in 1..Len(tree) |-> UnusedVariableIssues(tree[i])])
                  \o Flatten([i \in 1..Len(tree) |-> BareExceptIssues(tree[i])]),
     raises |-> FALSE]

\* the loops of the statements are empty and nothing is declared global
_analyze_performance_issues(tree) == [issues |-> <<>>, raises |-> FALSE]

\* s.lower()
UpperCase ==
    <<"A", "B", "C", "D", "E", "F", "G", "H", "I", "J", "K", "L", "M", "N", "O", "P",
      "Q", "R", "S", "T", "U", "V", "W", "X", "Y", "Z">>
LowerCase ==
    <<"a", "b", "c", "d", "e", "f", "g", "h", "i", "j", "k", "l", "m", "n", "o", "p",
      "q", "r", "s", "t", "u", "v", "w", "x", "y", "z">>
Lower(s) ==
    [i \in 1..Len(s) |->
        IF s[i] \in {UpperCase[k] : k \in 1..26}
        THEN LowerCase[CHOOSE k \in 1..26 : UpperCase[k] = s[i]]
        ELSE s[i]]

\* an Assign of a string constant longer than 8 to a name that holds one of
\* 'password', 'secret', 'key', 'token'
CredentialIssues(n) ==
    IF /\ n.node.type = "Assign"
       /\ \E keyword \in {Py.password, Py.secret, Py.key, Py.token} :
              Contains(Lower(n.node.name), keyword)
       /\ n.node.value_type = "str"
       /\ Len(n.node.value) > 8
    THEN <<_add_issue("Hardcoded Credential", HIGH, "hardcoded_credential", n.lineno)>>
    ELSE <<>>

\* a Call of the name eval or exec; the Call is below its Expr statement
CallIssues(n) ==
    IF n.node.type = "Expr" /\ n.node.name = Py.eval
    THEN <<_add_issue("Dangerous eval() Usage", CRITICAL, "eval_usage", n.lineno)>>
    ELSE IF n.node.type = "Expr" /\ n.node.name = Py.exec
    THEN <<_add_issue("Dangerous exec() Usage", CRITICAL, "exec_usage", n.lineno)>>
    ELSE <<>>

_analyze_security_patterns(tree) ==
    [issues |-> Flatten([i \in 1..Len(tree) |-> CredentialIssues(tree[i])])
                  \o Flatten([i \in 1..Len(tree) |-> CallIssues(tree[i])]),
     raises |-> FALSE]

\* the six traversals of analyze, in the order of its try block
Families(tree) ==
    <<_analyze_complexity(tree), _analyze_code_smells(tree),
      _analyze_best_practices(tree), _analyze_potential_bugs(tree),
      _analyze_performance_issues(tree), _analyze_security_patterns(tree)>>

RECURSIVE RunFamilies(_)
\* the try block: the issues added until a traversal raises, and whether one
\* does
RunFamilies(families) ==
    IF families = <<>> THEN [issues |-> <<>>, raises |-> FALSE]
    ELSE IF Head(families).raises
    THEN [issues |-> Head(families).issues, raises |-> TRUE]
    ELSE LET rest == RunFamilies(Tail(families))
         IN  [issues |-> Head(families).issues \o rest.issues, raises |-> rest.raises]

\* analyze, run from its first statement to its return with no other caller
analyze(tree) ==
    LET run == RunFamilies(Families(tree))
    IN  IF run.raises THEN <<>> ELSE run.issues

Callers == {"c1", "c2"}

AnalyzeBeginKeeping(c) ==
    \* mutant: analyze goes on with the list the analyzer holds
    /\ an_pc[c] = "call"
    /\ an_todo' = [an_todo EXCEPT ![c] = RunFamilies(Families(an_tree[c])).issues]
    /\ an_raise' = [an_raise EXCEPT ![c] = RunFamilies(Families(an_tree[c])).raises]
    /\ an_pc' = [an_pc EXCEPT ![c] = "run"]
    /\ UNCHANGED <<heap, self_issues, an_tree, an_result>>

\* self.issues = []
AnalyzeBegin(c) ==
    /\ an_pc[c] = "call"
    /\ heap' = Append(heap, <<>>)
    /\ self_issues' = Len(heap) + 1
    /\ an_todo' = [an_todo EXCEPT ![c] = RunFamilies(Families(an_tree[c])).issues]
    /\ an_raise' = [an_raise EXCEPT ![c] = RunFamilies(Families(an_tree[c])).raises]
    /\ an_pc' = [an_pc EXCEPT ![c] = "run"]
    /\ UNCHANGED <<an_tree, an_result>>

\* self.issues.append({...}) of _add_issue
AddIssue(c) ==
    /\ an_pc[c] = "run"
    /\ an_todo[c] # <<>>
    /\ heap' = [heap EXCEPT ![self_issues] = Append(@, Head(an_todo[c]))]
    /\ an_todo' = [an_todo EXCEPT ![c] = Tail(@)]
    /\ UNCHANGED <<self_issues, an_pc, an_tree, an_raise, an_result>>

\* return self.issues
AnalyzeReturn(c) ==
    /\ an_pc[c] = "run"
    /\ an_todo[c] = <<>>
    /\ ~an_raise[c]
    /\ an_result' = [an_result EXCEPT ![c] = self_issues]
    /\ an_pc' = [an_pc EXCEPT ![c] = "done"]
    /\ UNCHANGED <<heap, self_issues, an_tree, an_todo, an_raise>>

\* except Exception: return []
AnalyzeRaise(c) ==
    /\ an_pc[c] = "run"
    /\ an_todo[c] = <<>>
    /\ an_raise[c]
    /\ heap' = Append(heap, <<>>)
    /\ an_result' = [an_result EXCEPT ![c] = Len(heap) + 1]
    /\ an_pc' = [an_pc EXCEPT ![c] = "done"]
    /\ UNCHANGED <<self_issues, an_tree, an_todo, an_raise>>

\* the trees of the contents ast.parse accepts
Trees(n) ==
    {ast_parse(c).tree :
        c \in SeqsUpTo({s \in StmtUniverse : s.type \in NodeTypes}, n)}

\* the analyzer as __init__ leaves it, and nobody calling
AstIdle ==
    /\ heap = <<<<>>>>
    /\ self_issues = 1
    /\ an_pc = [c \in Callers |-> "off"]
    /\ an_tree = [c \in Callers |-> <<>>]
    /\ an_todo = [c \in Callers |-> <<>>]
    /\ an_raise = [c \in Callers |-> FALSE]
    /\ an_result = [c \in Callers |-> 0]

\* one caller with a tree
AstInit ==
    /\ heap = <<<<>>>>
    /\ self_issues = 1
    /\ an_pc = [c \in Callers |-> IF c = "c1" THEN "call" ELSE "off"]
    /\ \E t \in Trees(MaxStmts) : an_tree = [c \in Callers |-> IF c = "c1" THEN t ELSE <<>>]
    /\ an_todo = [c \in Callers |-> <<>>]
    /\ an_raise = [c \in Callers |-> FALSE]
    /\ an_result = [c \in Callers |-> 0]

MaxParStmts == 1    \* statements of a tree when two callers run together

\* two callers, each with a tree, on the analyzer the service holds
AstParInit ==
    /\ heap = <<<<>>>>
    /\ self_issues = 1
    /\ an_pc = [c \in Callers |-> "call"]
    /\ an_tree \in [Callers -> Trees(MaxParStmts)]
    /\ an_todo = [c \in Callers |-> <<>>]
    /\ an_raise = [c \in Callers |-> FALSE]
    /\ an_result = [c \in Callers |-> 0]

MaxSeqStmts == 1    \* statements of a tree when one caller follows the other

\* two trees for the same analyzer, the second to be passed when the call
\* with the first has returned
AstSeqInit ==
    /\ heap = <<<<>>>>
    /\ self_issues = 1
    /\ an_pc = [c \in Callers |-> IF c = "c1" THEN "call" ELSE "off"]
    /\ an_tree \in [Callers -> Trees(MaxSeqStmts)]
    /\ an_todo = [c \in Callers |-> <<>>]
    /\ an_raise = [c \in Callers |-> FALSE]
    /\ an_result = [c \in Callers |-> 0]

\* the next call of analyze on the same analyzer, after the first is done
NextCall ==
    /\ an_pc["c1"] = "done"
    /\ an_pc["c2"] = "off"
    /\ an_pc' = [an_pc EXCEPT !["c2"] = "call"]
    /\ UNCHANGED <<heap, self_issues, an_tree, an_todo, an_raise, an_result>>

(***************************************************************************)
(* SecurityAnalyzer.  The text of a content is the sequence of its         *)
(* characters, "\n" between its lines.  With re.IGNORECASE an expression    *)
(* written in lower case is tried on the text in lower case.               *)
(***************************************************************************)
RECURSIVE Join(_)
\* '\n'.join(lines)
Join(lines) ==
    IF Len(lines) = 0 THEN <<>>
    ELSE IF Len(lines) = 1 THEN lines[1]
    ELSE lines[1] \o <<"\n">> \o Join(Tail(lines))

ContentText(content) == Join(ContentLines(content))

\* file_content[:match.start()].count('\n') + 1
LineNumberAt(text, p) == Cardinality({i \in 1..(p - 1) : text[i] = "\n"}) + 1

\* the members of a set of numbers in rising order
Ascending(S) ==
    [k \in 1..Cardinality(S) |-> CHOOSE x \in S : Cardinality({y \in S : y < x}) = k - 1]

\* the first position at or after i that holds no white space: \s*
SkipSpace(s, i) ==
    LET stops == {j \in i..Len(s) : s[j] \notin Whitespace \cup {"\n"}}
    IN  IF stops = {} THEN Max(Len(s) + 1, i) ELSE SetMin(stops)

\* keyword\s*[seps]\s*["'][^"']{minlen,}["'] tried at p: the position of the
\* closing quote, or 0 when it does not match there
AssignedLiteralEnd(s, p, keyword, seps, minlen) ==
    LET e == SkipSpace(s, p + Len(keyword))
        q == SkipSpace(s, e + 1)
        closing == {j \in (q + 1)..Len(s) : s[j] \in Quotes}
    IN  IF /\ Sub(s, p, p + Len(keyword) - 1) = keyword
           /\ e <= Len(s) /\ s[e] \in seps
           /\ q <= Len(s) /\ s[q] \in Quotes
           /\ closing # {}
           /\ SetMin(closing) - q - 1 >= minlen
        THEN SetMin(closing)
        ELSE 0

RECURSIVE AssignedLiteralMatches(_, _, _, _, _)
\* re.finditer of that expression: where its matches start, none overlapping
AssignedLiteralMatches(s, from, keyword, seps, minlen) ==
    LET starts == {p \in Occurrences(s, keyword, from) :
                       AssignedLiteralEnd(s, p, keyword, seps, minlen) > 0}
    IN  IF starts = {} THEN <<>>
        ELSE <<SetMin(starts)>>
               \o AssignedLiteralMatches(
                      s, AssignedLiteralEnd(s, SetMin(starts), keyword, seps, minlen) + 1,
                      keyword, seps, minlen)

\* re.finditer(r'\beval\s*\(', ...): where its matches start
EvalCallMatches(s) ==
    Ascending({p \in Occurrences(s, Py.eval, 1) :
        /\ (p = 1 \/ s[p - 1] \notin WordChars)
        /\ LET o == SkipSpace(s, p + 4) IN o <= Len(s) /\ s[o] = "("})

\* the dictionary of one match of a rule of security_patterns
PatternIssue(title, severity, rule_id, line_number) ==
    [title |-> title, severity |-> severity, rule_id |-> rule_id,
     line_number |-> line_number, line_end |-> <<>>, confidence |-> 80]

\* The rules of security_patterns['python'] that match a text of the model,
\* in the order of the table (the other six match none of them).
security_patterns(language) ==
    IF language # "python" THEN <<>>
    ELSE <<[rule_id |-> "hardcoded_password",
            pattern |-> "password\\s*=\\s*[\"'][^\"']{8,}[\"']",
            severity |-> CRITICAL, title |-> "Hardcoded Password"],
           [rule_id |-> "eval_usage", pattern |-> "\\beval\\s*\\(",
            severity |-> HIGH, title |-> "Dangerous eval() Usage"]>>

\* a rule as the table may be given one, with an expression re cannot
\* compile: the parenthesis is not closed
MalformedRule ==
    [rule_id |-> "hardcoded_token", pattern |-> "token\\s*=\\s*(",
     severity |-> HIGH, title |-> "Hardcoded Token"]

\* re.finditer(pattern, file_content, re.IGNORECASE | re.MULTILINE): raises
\* re.error, or the starts of the matches
finditer(pattern, text) ==
    LET low == Lower(text)
    IN  CASE pattern = security_patterns("python")[1].pattern ->
                [raises |-> FALSE,
                 matches |-> AssignedLiteralMatches(low, 1, Py.password, {"="}, 8)]
          [] pattern = security_patterns("python")[2].pattern ->
                [raises |-> FALSE, matches |-> EvalCallMatches(low)]
          [] pattern = MalformedRule.pattern ->
                [raises |-> TRUE, matches |-> <<>>]

RuleIssuesAborting(pattern_rule, text) ==
    \* mutant: one try around the whole loop, re.error ends the scan
    LET found == finditer(pattern_rule.pattern, text)
    IN  [raises |-> found.raises,
         issues |-> [k \in 1..Len(found.matches) |->
                       PatternIssue(pattern_rule.title, pattern_rule.severity,
                                    pattern_rule.rule_id,
                                    LineNumberAt(text, found.matches[k]))]]

\* one round of the loop over the rules: the issues it appends; raises says
\* that the round leaves the loop
RuleIssues(pattern_rule, text) ==
    LET found == finditer(pattern_rule.pattern, text)
    IN  [raises |-> FALSE,
         issues |-> [k \in 1..Len(found.matches) |->
                       PatternIssue(pattern_rule.title, pattern_rule.severity,
                                    pattern_rule.rule_id,
                                    LineNumberAt(text, found.matches[k]))]]

RECURSIVE PatternLoop(_, _, _)
\* for pattern_rule in patterns
PatternLoop(patterns, text, found) ==
    IF patterns = <<>> THEN found
    ELSE LET round == RuleIssues(Head(patterns), text)
         IN  IF round.raises THEN found \o round.issues
             ELSE PatternLoop(Tail(patterns), text, found \o round.issues)

\* _pattern_based_analysis: rule by rule, match by match
_pattern_based_analysis(text, language) ==
    PatternLoop(security_patterns(language), text, <<>>)

(***************************************************************************)
(* One call of _pattern_based_analysis, round by round, on a table of      *)
(* rules that may hold a rule whose expression does not compile.           *)
(***************************************************************************)
VARIABLES
    scan_pc,        \* "loop" | "returned"
    patterns,       \* self.security_patterns[language]
    scan_content,   \* file_content
    scan_i,         \* the place of the loop over patterns
    scan_issues     \* issues

scanVars == <<scan_pc, patterns, scan_content, scan_i, scan_issues>>

MaxRules == 3       \* rules of a table
MaxScanStmts == 2   \* statements of the content scanned

RuleUniverse ==
    {security_patterns("python")[1], security_patterns("python")[2], MalformedRule}

ScanStmts == {Stmt.PwdShort, Stmt.PwdLong, Stmt.Eval, Stmt.Num}

ScanIdle ==
    /\ scan_pc = Idle /\ patterns = <<>> /\ scan_content = <<>>
    /\ scan_i = 1 /\ scan_issues = <<>>

ScanInit ==
    /\ scan_pc = "loop"
    /\ patterns \in SeqsUpTo(RuleUniverse, MaxRules)
    /\ scan_content \in SeqsUpTo(ScanStmts, MaxScanStmts)
    /\ scan_i = 1
    /\ scan_issues = <<>>

\* one round: the matches of the rule are appended, or re.error is caught
\* and the loop goes on
ScanRule ==
    /\ scan_pc = "loop"
    /\ scan_i <= Len(patterns)
    /\ LET round == RuleIssues(patterns[scan_i], ContentText(scan_content))
       IN  /\ scan_issues' = scan_issues \o round.issues
           /\ IF round.raises
              THEN scan_pc' = "returned" /\ UNCHANGED scan_i
              ELSE scan_i' = scan_i + 1 /\ UNCHANGED scan_pc
    /\ UNCHANGED <<patterns, scan_content>>

\* return issues
ScanReturn ==
    /\ scan_pc = "loop"
    /\ scan_i > Len(patterns)
    /\ scan_pc' = "returned"
    /\ UNCHANGED <<patterns, scan_content, scan_i, scan_issues>>

\* the ExceptHandlers whose body is one pass, each on its line
ExceptPassIssues(n) ==
    IF n.node.type \notin Functions THEN <<>>
    ELSE Flatten([k \in 1..Len(n.node.body) |->
             IF n.node.body[k] = "Try"
             THEN <<[title |-> "Empty Exception Handler", severity |-> MEDIUM,
                     rule_id |-> "except_pass", line_number |-> ConstructLine(n, k) + 2,
                     line_end |-> <<>>, confidence |-> 90]>>
             ELSE <<>>])

\* _python_ast_analysis: nothing when ast.parse raises
_python_ast_analysis(content) ==
    LET parsed == ast_parse(content)
    IN  IF parsed.raises # "" THEN <<>>
        ELSE Flatten([i \in 1..Len(parsed.tree) |-> ExceptPassIssues(parsed.tree[i])])

RECURSIVE Split(_, _)
\* s.split(sep) for a separator of one character
Split(s, sep) ==
    LET at == {i \in 1..Len(s) : s[i] = sep}
    IN  IF at = {} THEN <<s>>
        ELSE <<SubSeq(s, 1, SetMin(at) - 1)>>
               \o Split(SubSeq(s, SetMin(at) + 1, Len(s)), sep)

\* Path(file_path).parts, .name and .suffix of a relative path
PathParts(path) == SelectSeq(Split(path, "/"), LAMBDA part : part # <<>>)
PathName(path) ==
    IF PathParts(path) = <<>> THEN <<>> ELSE PathParts(path)[Len(PathParts(path))]
PathSuffix(path) ==
    LET name == PathName(path)
        dots == {i \in 1..Len(name) : name[i] = "."}
    IN  IF dots = {} \/ SetMax(dots) = 1 \/ SetMax(dots) = Len(name) THEN <<>>
        ELSE SubSeq(name, SetMax(dots), Len(name))

EndsWith(s, p) == Len(s) >= Len(p) /\ SubSeq(s, Len(s) - Len(p) + 1, Len(s)) = p

_is_test_file(path) ==
    \/ Contains(Lower(PathName(path)), Py.test)
    \/ StartsWith(PathName(path), Py.test_)
    \/ EndsWith(PathName(path), Py._test_py)
    \/ \E i \in 1..Len(PathParts(path)) : PathParts(path)[i] = Py.test

\* re.search(r'password.*=.*["\'][^"\']{8,}["\']', ...): the dot stays on
\* its line, the literal may run over lines
TestCredentialIn(s) ==
    \E p \in Occurrences(s, Py.password, 1) :
        \E e \in (p + 8)..Len(s) :
            /\ s[e] = "="
            /\ \A j \in (p + 8)..(e - 1) : s[j] # "\n"
            /\ \E q \in (e + 1)..Len(s) :
                 /\ s[q] \in Quotes
                 /\ \A j \in (e + 1)..(q - 1) : s[j] # "\n"
                 /\ \E c \in (q + 9)..Len(s) :
                      /\ s[c] \in Quotes
                      /\ \A j \in (q + 1)..(c - 1) : s[j] \notin Quotes

_analyze_test_file(text) ==
    IF TestCredentialIn(Lower(text))
    THEN <<[title |-> "Hardcoded Credentials in Tests", severity |-> MEDIUM,
            rule_id |-> "test_credentials", line_number |-> 1,
            line_end |-> <<>>, confidence |-> 70]>>
    ELSE <<>>

config_extensions ==
    { <<".", "i", "n", "i">>,
      <<".", "c", "o", "n", "f">>,
      <<".", "c", "o", "n", "f", "i", "g">>,
      <<".", "c", "f", "g">>,
      <<".", "t", "o", "m", "l">>,
      <<".", "y", "a", "m", "l">>,
      <<".", "y", "m", "l">>,
      <<".", "j", "s", "o", "n">> }
config_names == {<<"c", "o", "n", "f", "i", "g">>, <<"s", "e", "t", "t", "i", "n", "g", "s">>, Py.env, <<"e", "n", "v", "i", "r", "o", "n", "m", "e", "n", "t">>}

_is_config_file(path) ==
    \/ Lower(PathSuffix(path)) \in config_extensions
    \/ Lower(PathName(path)) \in config_names
    \/ StartsWith(PathName(path), Py.env)

\* _analyze_config_file: of its four expressions the one of password; no text
\* of StmtUniverse holds "key" or "token", which the other three need
_analyze_config_file(text) ==
    LET found == AssignedLiteralMatches(Lower(text), 1, Py.password, {"=", ":"}, 4)
    IN  [k \in 1..Len(found) |->
            [title |-> "Password in config file", severity |-> HIGH,
             rule_id |-> "config_secrets", line_number |-> LineNumberAt(text, found[k]),
             line_end |-> <<>>, confidence |-> 90]]

dependency_files ==
    { <<"r", "e", "q", "u", "i", "r", "e", "m", "e", "n", "t", "s", ".", "t", "x", "t">>,
      <<"r", "e", "q", "u", "i", "r", "e", "m", "e", "n", "t", "s", "-", "d", "e", "v", ".", "t", "x", "t">>,
      <<"s", "e", "t", "u", "p", ".", "p", "y">>,
      <<"p", "y", "p", "r", "o", "j", "e", "c", "t", ".", "t", "o", "m", "l">>,
      <<"P", "i", "p", "f", "i", "l", "e">>,
      <<"p", "a", "c", "k", "a", "g", "e", ".", "j", "s", "o", "n">>,
      <<"p", "a", "c", "k", "a", "g", "e", "-", "l", "o", "c", "k", ".", "j", "s", "o", "n">>,
      <<"y", "a", "r", "n", ".", "l", "o", "c", "k">>,
      <<"G", "e", "m", "f", "i", "l", "e">>,
      <<"G", "e", "m", "f", "i", "l", "e", ".", "l", "o", "c", "k">>,
      <<"c", "o", "m", "p", "o", "s", "e", "r", ".", "j", "s", "o", "n">>,
      <<"c", "o", "m", "p", "o", "s", "e", "r", ".", "l", "o", "c", "k">> }

_is_dependency_file(path) == PathName(path) \in dependency_files

vulnerable_packages ==
    << [package |-> <<"r", "e", "q", "u", "e", "s", "t", "s">>, title |-> "Vulnerable Dependency: requests", versions |-> {<<"2", ".", "2", "5", ".", "0">>, <<"2", ".", "2", "5", ".", "1">>}],
       [package |-> <<"f", "l", "a", "s", "k">>, title |-> "Vulnerable Dependency: flask", versions |-> {<<"1", ".", "0", ".", "0">>, <<"1", ".", "0", ".", "1">>}],
       [package |-> <<"d", "j", "a", "n", "g", "o">>, title |-> "Vulnerable Dependency: django", versions |-> {<<"2", ".", "2", ".", "0">>, <<"2", ".", "2", ".", "1">>}] >>

\* re.search(rf'{package}\s*[=><~!]+\s*(version|version)', file_content)
VulnerableVersionIn(s, entry) ==
    \E p \in Occurrences(s, entry.package, 1) :
        LET o == SkipSpace(s, p + Len(entry.package))
            after == {j \in o..Len(s) : s[j] \notin {"=", ">", "<", "~", "!"}}
            v == IF after = {} THEN Len(s) + 1 ELSE SkipSpace(s, SetMin(after))
        IN  /\ after # {} /\ SetMin(after) > o
            /\ \E version \in entry.versions :
                   Sub(s, v, v + Len(version) - 1) = version

_analyze_dependency_file(text) ==
    Flatten([k \in 1..Len(vulnerable_packages) |->
        IF VulnerableVersionIn(text, vulnerable_packages[k])
        THEN <<[title |-> vulnerable_packages[k].title,
                severity |-> HIGH, rule_id |-> "vulnerable_dependency",
                line_number |-> 1, line_end |-> <<>>, confidence |-> 80]>>
        ELSE <<>>])

\* _context_aware_analysis: configuration files, test files, dependency files
_context_aware_analysis(path, text) ==
    (IF _is_config_file(path) THEN _analyze_config_file(text) ELSE <<>>)
      \o (IF _is_test_file(path) THEN _analyze_test_file(text) ELSE <<>>)
      \o (IF _is_dependency_file(path) THEN _analyze_dependency_file(text) ELSE <<>>)

\* SecurityAnalyzer.analyze_file
security_analyze_file(path, content, language) ==
    _pattern_based_analysis(ContentText(content), language)
      \o (IF language = "python" THEN _python_ast_analysis(content) ELSE <<>>)
      \o _context_aware_analysis(path, ContentText(content))

(***************************************************************************)
(* AIAnalysisService.analyze_file                                          *)
(***************************************************************************)
code_extensions ==
    { <<".", "p", "y">>,
      <<".", "j", "s">>,
      <<".", "t", "s">>,
      <<".", "j", "s", "x">>,
      <<".", "t", "s", "x">>,
      <<".", "j", "a", "v", "a">>,
      <<".", "c", "p", "p">>,
      <<".", "c">>,
      <<".", "c", "s">>,
      <<".", "p", "h", "p">>,
      <<".", "r", "b">>,
      <<".", "g", "o">>,
      <<".", "r", "s">>,
      <<".", "k", "t">>,
      <<".", "s", "w", "i", "f", "t">>,
      <<".", "d", "a", "r", "t">> }
language_map(extension) ==
    CASE extension = <<".", "p", "y">> -> "python"
      [] extension = <<".", "j", "s">> -> "javascript"
      [] extension = <<".", "t", "s">> -> "typescript"
      [] extension = <<".", "j", "s", "x">> -> "javascript"
      [] extension = <<".", "t", "s", "x">> -> "typescript"
      [] extension = <<".", "j", "a", "v", "a">> -> "java"
      [] extension = <<".", "c", "p", "p">> -> "cpp"
      [] extension = <<".", "c">> -> "c"
      [] extension = <<".", "c", "s">> -> "csharp"
      [] extension = <<".", "p", "h", "p">> -> "php"
      [] extension = <<".", "r", "b">> -> "ruby"
      [] extension = <<".", "g", "o">> -> "go"
      [] extension = <<".", "r", "s">> -> "rust"
      [] OTHER -> "unknown"

_detect_language(path) == language_map(Lower(PathSuffix(path)))

MaxContentLength == 1048576

IsCodeFileByExtension(path, content) ==
    \* mutant: the extension decides alone
    Lower(PathSuffix(path)) \in code_extensions

\* the content encodes as UTF-8
_is_code_file(path, content) ==
    /\ ~IsBlankText(ContentLines(content))
    /\ ContentLength(content) <= MaxContentLength
    /\ Lower(PathSuffix(path)) \in code_extensions

\* an issue of the list analyze_file returns
Issue(title, category, severity, rule_id, path, line_start, line_end, confidence) ==
    [title |-> title, category |-> category, severity |-> severity,
     rule_id |-> rule_id, file_path |-> path, line_start |-> line_start,
     line_end |-> line_end, confidence_score |-> confidence]

SyntaxIssue(path, lineno) ==
    Issue("Syntax Error", "syntax", HIGH, "syntax_error", path, lineno, <<lineno>>, 100)

\* the issues of analyze as _ast_analysis hands them on
AstIssues(path, analyzed) ==
    [i \in 1..Len(analyzed) |->
        Issue(analyzed[i].title, "code_quality", analyzed[i].severity,
              analyzed[i].rule_id, path, analyzed[i].line_number,
              <<analyzed[i].line_end>>, analyzed[i].confidence)]

AstAnalysisWithoutSyntaxHandler(path, content, language) ==
    \* mutant: SyntaxError is left to the handler of Exception, which only logs
    IF language # "python" \/ ast_parse(content).raises # "" THEN <<>>
    ELSE AstIssues(path, analyze(ast_parse(content).tree))

\* _ast_analysis.  The tree-sitter pass reports control flow nested deeper
\* than ten levels, which no statement of StmtUniverse has, and then fails
\* on a method the service lacks.
_ast_analysis(path, content, language) ==
    IF language # "python" THEN <<>>
    ELSE IF ast_parse(content).raises = "SyntaxError"
    THEN <<SyntaxIssue(path, ast_parse(content).lineno)>>
    ELSE IF ast_parse(content).raises # "" THEN <<>>
    ELSE AstIssues(path, analyze(ast_parse(content).tree))

_security_analysis(path, content, language) ==
    LET found == security_analyze_file(path, content, language)
    IN  [i \in 1..Len(found) |->
            Issue(found[i].title, "security", found[i].severity, found[i].rule_id,
                  path, found[i].line_number, found[i].line_end, found[i].confidence)]

ChunkSize == 20

\* _chunk_code_for_analysis: how many chunks
ChunkCount(content) == (Len(ContentLines(content)) + ChunkSize - 1) \div ChunkSize

\* _quality_analysis: classifier is <<>> or <<the answer to every chunk>>
_quality_analysis(path, content, classifier) ==
    IF classifier = <<>> THEN <<>>
    ELSE Flatten([k \in 1..ChunkCount(content) |->
             IF /\ classifier[1].label \in {"poor", "bad", "low_quality"}
                /\ classifier[1].score > 70
             THEN <<Issue("Code Quality Issue", "code_quality", MEDIUM,
                          "ml_quality_check", path, (k - 1) * ChunkSize + 1,
                          <<k * ChunkSize>>, classifier[1].score)>>
             ELSE <<>>])

\* _parse_ai_response of an answer that holds the JSON list found
_parse_ai_response(found, path) ==
    [i \in 1..Len(found) |->
        Issue(found[i].title, found[i].category,
              IF found[i].severity \in IssueSeverity THEN found[i].severity ELSE MEDIUM,
              "ai_analysis", path, found[i].line_number, <<>>, 75)]

\* _rule_based_analysis: the three expressions of no_hardcoded_secrets
_rule_based_analysis(path, text, rule_names) ==
    LET low == Lower(text)
    IN  Flatten([r \in 1..Len(rule_names) |->
            IF rule_names[r] # "no_hardcoded_secrets" THEN <<>>
            ELSE Flatten([p \in 1..3 |->
                     LET found == AssignedLiteralMatches(
                                      low, 1, <<Py.password, Py.api_key, Py.secret>>[p], {"="}, 1)
                     IN  [k \in 1..Len(found) |->
                             Issue("Rule Violation: no_hardcoded_secrets", "style", LOW,
                                   rule_names[r], path, LineNumberAt(text, found[k]),
                                   <<>>, 90)]])])

\* the list analyze_file builds before it removes duplicates
CollectIssues(path, content, rule_names, client, classifier) ==
    LET language == _detect_language(path)
    IN  _ast_analysis(path, content, language)
          \o _security_analysis(path, content, language)
          \o _quality_analysis(path, content, classifier)
          \o (IF client # <<>> THEN _parse_ai_response(client[1], path) ELSE <<>>)
          \o (IF rule_names # <<>>
              THEN _rule_based_analysis(path, ContentText(content), rule_names)
              ELSE <<>>)

FilePaths ==
    {Py.app_py, Py.test_app_py, Py.notes_txt, Py.requirements_txt, Py.package_json,
     Py.setup_py}

\* the answers of the provider: none, or one issue in the format the prompt
\* asks for, on line 1 or with the line number 0
AiAnswers ==
    {<<>>,
     <<[title |-> "AI Detected Issue", category |-> "bug", severity |-> "high",
        line_number |-> 1]>>,
     <<[title |-> "AI Detected Issue", category |-> "bug", severity |-> "high",
        line_number |-> 0]>>}

FileIdle ==
    /\ file_pc = Idle /\ file_path = <<>> /\ file_content = <<>> /\ rules = <<>>
    /\ openai_client = <<>> /\ quality_classifier = <<>> /\ file_result = <<>>

FileInit ==
    /\ file_pc = "call"
    /\ file_path \in FilePaths
    /\ file_content \in SeqsUpTo(StmtUniverse, MaxStmts)
    /\ rules \in {<<>>, <<"no_hardcoded_secrets">>}
    /\ openai_client \in {<<>>} \cup {<<a>> : a \in AiAnswers}
    /\ quality_classifier \in {<<>>, <<[label |-> "poor", score |-> 90]>>}
    /\ file_result = <<>>

\* if not self._is_code_file(file_path, file_content): return []
AnalyzeFileSkip ==
    /\ file_pc = "call"
    /\ ~_is_code_file(file_path, file_content)
    /\ file_result' = <<>>
    /\ file_pc' = "returned"
    /\ UNCHANGED <<file_path, file_content, rules, openai_client, quality_classifier>>
    /\ UNCHANGED astVars

\* what the call of self.ast_analyzer.analyze leaves in the analyzer
AnalyzerAfter(h, tree) ==
    LET run == RunFamilies(Families(tree))
    IN  [heap |-> IF run.raises THEN h \o <<run.issues, <<>>>> ELSE Append(h, run.issues),
         self_issues |-> Len(h) + 1]

\* the five analyses, then _deduplicate_issues and _prioritize_issues
AnalyzeFile ==
    /\ file_pc = "call"
    /\ _is_code_file(file_path, file_content)
    /\ file_result' = _prioritize_issues(_deduplicate_issues(
           CollectIssues(file_path, file_content, rules, openai_client,
                         quality_classifier)))
    /\ file_pc' = "returned"
    /\ IF _detect_language(file_path) = "python" /\ ast_parse(file_content).raises = ""
       THEN /\ heap' = AnalyzerAfter(heap, ast_parse(file_content).tree).heap
            /\ self_issues' = AnalyzerAfter(heap, ast_parse(file_content).tree).self_issues
       ELSE UNCHANGED <<heap, self_issues>>
    /\ UNCHANGED <<file_path, file_content, rules, openai_client, quality_classifier>>
    /\ UNCHANGED <<an_pc, an_tree, an_todo, an_raise, an_result>>

(***************************************************************************)
(* Claims about ASTAnalyzer.                                               *)
(***************************************************************************)
\* the list the first caller got back, as it is now
Returned(c) == heap[an_result[c]]

\* C6: when the traversal of one rule family raises, the issues found by
\* every family that does not raise are in the list analyze returns.
C6_FamiliesIndependent ==
    an_pc["c1"] = "done" =>
        \A k \in 1..6 :
            LET family == Families(an_tree["c1"])[k]
            IN  ~family.raises =>
                    \A i \in 1..Len(family.issues) :
                        InList(family.issues[i], Returned("c1"))

\* C7: when two invocations of analyze on the analyzer of the service are
\* interleaved, each returns exactly the list it returns when run alone.
C7_ParallelAnalyzeIsolated ==
    (\A c \in Callers : an_pc[c] = "done") =>
        \A c \in Callers : Returned(c) = analyze(an_tree[c])

\* the branching constructs of a function: its if, while, for and with
\* statements, its except clauses, and every operand after the first of a
\* chain of and / or
BranchingConstructs(node) ==
    Count(node.body, LAMBDA tag : tag \in {"If", "While", "For", "With", "Try"})
      + 2 * Count(node.body, LAMBDA tag : tag = "BoolOp")

\* C29: when the analyzer is used for one call after the other, the list a
\* call returned is the list of its own tree (nothing of an earlier call is
\* in it), and it stays that list while and after the later call runs.
C29_SequentialCallsIsolated ==
    \A c \in Callers : an_pc[c] = "done" => Returned(c) = analyze(an_tree[c])

\* both calls are done, each returned the issues of its own tree, and the
\* two lists differ
C29_Witness ==
    /\ \A c \in Callers : an_pc[c] = "done"
    /\ Returned("c1") # <<>> /\ Returned("c2") # <<>>
    /\ Returned("c1") # Returned("c2")
    /\ an_result["c1"] # an_result["c2"]
    /\ Returned("c1") = analyze(an_tree["c1"])

\* C9: analyze reports High Cyclomatic Complexity (rule_id high_complexity,
\* severity medium) for a function exactly when 1 plus the number of its
\* branching constructs exceeds 10, on the line of its definition.
C9_HighComplexityExactlyAboveTen ==
    an_pc["c1"] = "done" =>
        \A i \in 1..Len(an_tree["c1"]) :
            LET n == an_tree["c1"][i]
            IN  n.node.type \in Functions =>
                    ((\E j \in 1..Len(Returned("c1")) :
                          /\ Returned("c1")[j].title = "High Cyclomatic Complexity"
                          /\ Returned("c1")[j].rule_id = "high_complexity"
                          /\ Returned("c1")[j].severity = MEDIUM
                          /\ Returned("c1")[j].line_number = n.lineno)
                     <=> 1 + BranchingConstructs(n.node) > 10)

(***************************************************************************)
(* Claims about analyze_file.                                              *)
(***************************************************************************)
SyntaxIssuesOf(list) ==
    {i \in 1..Len(list) : list[i].category = "syntax"}

ExactlyOneSyntaxIssue(list) ==
    /\ Cardinality(SyntaxIssuesOf(list)) = 1
    /\ \A i \in SyntaxIssuesOf(list) :
           list[i].rule_id = "syntax_error" /\ list[i].severity = HIGH

SecretRules == {"hardcoded_password", "hardcoded_credential"}

\* the issues about a hardcoded secret on a line
SecretIssuesOn(list, line) ==
    {i \in 1..Len(list) : list[i].rule_id \in SecretRules /\ list[i].line_start = line}

\* C10: in a Python file that analyze_file analyzes, password = "abc" gets no
\* issue with rule_id hardcoded_password or hardcoded_credential, and
\* password = "supersecret123" gets exactly one, on the line of the
\* assignment.
C10_HardcodedSecretPrecision ==
    (/\ file_pc = "returned"
     /\ _detect_language(file_path) = "python"
     /\ _is_code_file(file_path, file_content))
        => \A i \in 1..Len(file_content) :
               /\ file_content[i] = Stmt.PwdShort =>
                      SecretIssuesOn(file_result, LineOf(file_content, i)) = {}
               /\ file_content[i] = Stmt.PwdLong =>
                      Cardinality(SecretIssuesOn(file_result, LineOf(file_content, i))) = 1

\* C11: for a file of language unknown whose name is that of a dependency
\* manifest or of a configuration file, analyze_file still applies the
\* context rules of the security analyzer: when the content matches one of
\* them, the list it returns is not empty.
C11_ManifestContextRulesRun ==
    (/\ file_pc = "returned"
     /\ _detect_language(file_path) = "unknown"
     /\ _is_dependency_file(file_path) \/ _is_config_file(file_path)
     /\ ContentLength(file_content) <= MaxContentLength
     /\ _context_aware_analysis(file_path, ContentText(file_content)) # <<>>)
        => file_result # <<>>

(***************************************************************************)
(* The analysis task: _analyze_code_changes_async on the list of files it  *)
(* was handed or got from get_changed_files.  read_file and analyze_file   *)
(* raise nothing (a file that cannot be read has the content "", which     *)
(* analyze_file answers with no issue); what can raise within a round of   *)
(* the loop is task.update_state and review_service.create_issue.          *)
(***************************************************************************)
VARIABLES
    task_pc,            \* "start" | "loop" | "completed" | "returned" | "raised"
    file_issues,        \* per path: how many issues analyze_file returns for it
    task_files,         \* per file of the list: its path, what its round meets
    task_i,             \* the place of the loop
    attempted,          \* the files whose round has begun, in order
    analyzed_files,
    issues_found,       \* the rows create_issue stored and returned
    review_status,
    scoring_call,       \* <<>>, or <<the arguments of calculate_quality_metrics>>
    quality_metrics,
    review_results,     \* <<>>, or <<what update_analysis_results wrote>>
    repo_prepared,      \* prepare_repository returned the working copy
    cleaned_up,         \* cleanup_repository was called
    prepare_raises,     \* prepare_repository raises
    progress_raises,    \* task.update_state behind the loop raises
    success_raises      \* the last task.update_state raises

taskVars == <<task_pc, file_issues, task_files, task_i, attempted, analyzed_files,
              issues_found, review_status, scoring_call, quality_metrics,
              review_results, repo_prepared, cleaned_up, prepare_raises,
              progress_raises, success_raises>>

MaxTaskFiles == 3    \* files of a run
MaxTaskIssues == 2   \* issues analyze_file returns for a file

ReviewStatus ==
    [PENDING |-> "pending", IN_PROGRESS |-> "in_progress", COMPLETED |-> "completed",
     FAILED |-> "failed"]

TaskPaths == {"a.py", "b.py"}

\* what a round meets: task.update_state raises; or create_issue raises on
\* issue number create_issue_raises of the file (0: on none)
FileBehaviours ==
    {b \in [path : TaskPaths, update_state_raises : BOOLEAN,
            create_issue_raises : 0..MaxTaskIssues] :
        b.update_state_raises => b.create_issue_raises = 0}

\* the k-th issue analyze_file returns for a path
IssueData(path, k) ==
    [title |-> IF k = 1 THEN "Hardcoded Password" ELSE "Dangerous eval() Usage",
     category |-> "security",
     severity |-> IF k = 1 THEN CRITICAL ELSE HIGH,
     file_path |-> path, line_start |-> k]

\* the round of file i raises before its end
RoundRaises(i) ==
    task_files[i].update_state_raises \/ task_files[i].create_issue_raises > 0

\* the rows the round of file i appends to issues_found: file is the place
\* of the round in the list
RowsOf(i) ==
    LET b == task_files[i]
        n == IF b.update_state_raises THEN 0
             ELSE IF b.create_issue_raises > 0 THEN b.create_issue_raises - 1
             ELSE file_issues[b.path]
    IN  [k \in 1..n |-> [file |-> i, data |-> IssueData(b.path, k)]]

TaskIdle ==
    /\ task_pc = Idle /\ file_issues = <<>> /\ task_files = <<>> /\ task_i = 1
    /\ attempted = <<>> /\ analyzed_files = 0 /\ issues_found = <<>>
    /\ review_status = ReviewStatus.PENDING
    /\ scoring_call = <<>> /\ quality_metrics = <<>> /\ review_results = <<>>
    /\ repo_prepared = FALSE /\ cleaned_up = FALSE
    /\ prepare_raises = FALSE /\ progress_raises = FALSE /\ success_raises = FALSE

TaskInit ==
    /\ task_pc = "start"
    /\ file_issues \in [TaskPaths -> 0..MaxTaskIssues]
    /\ task_files \in SeqsUpTo(FileBehaviours, MaxTaskFiles)
    /\ \A i \in 1..Len(task_files) :
           task_files[i].create_issue_raises <= file_issues[task_files[i].path]
    /\ task_i = 1 /\ attempted = <<>>
    /\ analyzed_files = 0 /\ issues_found = <<>>
    /\ review_status = ReviewStatus.PENDING
    /\ scoring_call = <<>> /\ quality_metrics = <<>> /\ review_results = <<>>
    /\ repo_prepared = FALSE /\ cleaned_up = FALSE
    /\ prepare_raises \in BOOLEAN
    /\ progress_raises \in BOOLEAN
    /\ success_raises \in BOOLEAN

\* update_status(IN_PROGRESS), prepare_repository, the counters
PrepareRepository ==
    /\ task_pc = "start"
    /\ ~prepare_raises
    /\ review_status' = ReviewStatus.IN_PROGRESS
    /\ repo_prepared' = TRUE
    /\ task_pc' = "loop"
    /\ UNCHANGED <<file_issues, task_files, task_i, attempted, analyzed_files,
                   issues_found, scoring_call, quality_metrics, review_results,
                   cleaned_up, prepare_raises, progress_raises, success_raises>>

\* prepare_repository raises: except Exception sets FAILED and raises again
PrepareRaises ==
    /\ task_pc = "start"
    /\ prepare_raises
    /\ review_status' = ReviewStatus.FAILED
    /\ task_pc' = "raised"
    /\ UNCHANGED <<file_issues, task_files, task_i, attempted, analyzed_files,
                   issues_found, scoring_call, quality_metrics, review_results,
                   repo_prepared, cleaned_up, prepare_raises, progress_raises,
                   success_raises>>

AnalyzeNextFileAborting ==
    \* mutant: the round has no try, what it raises ends the task
    /\ task_pc = "loop"
    /\ task_i <= Len(task_files)
    /\ attempted' = Append(attempted, task_i)
    /\ issues_found' = issues_found \o RowsOf(task_i)
    /\ IF RoundRaises(task_i)
       THEN /\ review_status' = ReviewStatus.FAILED
            /\ task_pc' = "raised"
            /\ UNCHANGED <<analyzed_files, task_i>>
       ELSE /\ analyzed_files' = analyzed_files + 1
            /\ task_i' = task_i + 1
            /\ UNCHANGED <<review_status, task_pc>>
    /\ UNCHANGED <<file_issues, task_files, scoring_call, quality_metrics,
                   review_results, repo_prepared, cleaned_up, prepare_raises,
                   progress_raises, success_raises>>

\* one round of: for i, file_path in enumerate(files)
AnalyzeNextFile ==
    /\ task_pc = "loop"
    /\ task_i <= Len(task_files)
    /\ attempted' = Append(attempted, task_i)
    /\ issues_found' = issues_found \o RowsOf(task_i)
    /\ analyzed_files' = IF RoundRaises(task_i) THEN analyzed_files ELSE analyzed_files + 1
    /\ task_i' = task_i + 1
    /\ UNCHANGED <<task_pc, file_issues, task_files, review_status, scoring_call,
                   quality_metrics, review_results, repo_prepared, cleaned_up,
                   prepare_raises, progress_raises, success_raises>>

\* task.update_state("Generating quality scores...") raises: except
\* Exception sets FAILED and raises again
ProgressRaises ==
    /\ task_pc = "loop"
    /\ task_i > Len(task_files)
    /\ progress_raises
    /\ review_status' = ReviewStatus.FAILED
    /\ task_pc' = "raised"
    /\ UNCHANGED <<file_issues, task_files, task_i, attempted, analyzed_files,
                   issues_found, scoring_call, quality_metrics, review_results,
                   repo_prepared, cleaned_up, prepare_raises, progress_raises,
                   success_raises>>

\* what calculate_quality_metrics returns when its list holds rows of the
\* database, which cannot be indexed by 'severity'
DefaultMetrics(list) ==
    [code_quality_score |-> 500, security_score |-> 500,
     maintainability_score |-> 500, performance_score |-> 500,
     total_issues |-> Len(list)]

\* calculate_quality_metrics called with the rows create_issue returned
MetricsOfIssuesFound(list, n_files) ==
    IF list = <<>> THEN calculate_quality_metrics(<<>>, n_files)
    ELSE DefaultMetrics(list)

\* quality_metrics.get(key, default)
Get(dict, key, default) == IF key \in DOMAIN dict THEN dict[key] ELSE default

\* the values update_analysis_results writes to the review
AnalysisResults(dict, total_issues) ==
    [total_issues |-> total_issues,
     critical_issues |-> Get(dict, "critical_issues", 0),
     high_issues |-> Get(dict, "high_issues", 0),
     medium_issues |-> Get(dict, "medium_issues", 0),
     low_issues |-> Get(dict, "low_issues", 0),
     code_quality_score |-> Get(dict, "code_quality_score", <<>>),
     security_score |-> Get(dict, "security_score", <<>>),
     maintainability_score |-> Get(dict, "maintainability_score", <<>>)]

\* calculate_quality_metrics, update_analysis_results, update_status(COMPLETED)
CalculateAndComplete ==
    /\ task_pc = "loop"
    /\ task_i > Len(task_files)
    /\ ~progress_raises
    /\ scoring_call' = <<[issues |-> issues_found, total_files |-> Len(task_files)]>>
    /\ quality_metrics' = MetricsOfIssuesFound(issues_found, Len(task_files))
    /\ review_results' = <<AnalysisResults(quality_metrics', Len(issues_found))>>
    /\ review_status' = ReviewStatus.COMPLETED
    /\ task_pc' = "completed"
    /\ UNCHANGED <<file_issues, task_files, task_i, attempted, analyzed_files,
                   issues_found, repo_prepared, cleaned_up, prepare_raises,
                   progress_raises, success_raises>>

\* cleanup_repository, task.update_state(SUCCESS), return result
TaskReturn ==
    /\ task_pc = "completed"
    /\ ~success_raises
    /\ cleaned_up' = TRUE
    /\ task_pc' = "returned"
    /\ UNCHANGED <<file_issues, task_files, task_i, attempted, analyzed_files,
                   issues_found, review_status, scoring_call, quality_metrics,
                   review_results, repo_prepared, prepare_raises, progress_raises,
                   success_raises>>

\* cleanup_repository; task.update_state(SUCCESS) raises: except Exception
\* sets FAILED and raises again
TaskRaiseAtEnd ==
    /\ task_pc = "completed"
    /\ success_raises
    /\ cleaned_up' = TRUE
    /\ review_status' = ReviewStatus.FAILED
    /\ task_pc' = "raised"
    /\ UNCHANGED <<file_issues, task_files, task_i, attempted, analyzed_files,
                   issues_found, scoring_call, quality_metrics, review_results,
                   repo_prepared, prepare_raises, progress_raises, success_raises>>

vars == <<aggVars, scoreVars, diffVars, astVars, fileVars, taskVars, scanVars>>

\* C17: when a round of the loop raises, the task goes on to every later
\* file of the list; and when nothing outside the loop fails it returns with
\* the review status COMPLETED, every file of the list attempted in order.
C17_BadFileDoesNotAbort ==
    /\ (task_pc \in {"loop", "completed", "returned"}) =>
           /\ attempted = [i \in 1..(task_i - 1) |-> i]
           /\ review_status # ReviewStatus.FAILED
    /\ (task_pc \in {"completed", "returned"}) => Len(attempted) = Len(task_files)
    /\ (task_pc = "returned") => review_status = ReviewStatus.COMPLETED
    /\ (task_pc = "raised") => (prepare_raises \/ progress_raises \/ success_raises)

\* the task returned after three files: update_state raised for the first,
\* create_issue raised on the second issue of the second, the third went
\* through
C17_Witness ==
    /\ task_pc = "returned"
    /\ Len(task_files) = 3
    /\ task_files[1].update_state_raises
    /\ task_files[2].create_issue_raises = 2
    /\ ~RoundRaises(3) /\ file_issues[task_files[3].path] = 1
    /\ attempted = <<1, 2, 3>>
    /\ analyzed_files = 1
    /\ review_status = ReviewStatus.COMPLETED

\* the files whose round went through to its end
CompletedFiles == {i \in 1..Len(task_files) : ~RoundRaises(i)}

\* C18: the file count passed to calculate_quality_metrics is the number of
\* files whose analysis completed in this run, and every issue of the list
\* passed is an issue of such a file.
C18_ScoresOverAnalyzedFilesOnly ==
    scoring_call # <<>> =>
        /\ scoring_call[1].total_files = Cardinality(CompletedFiles)
        /\ \A k \in 1..Len(scoring_call[1].issues) :
               scoring_call[1].issues[k].file \in CompletedFiles


(***************************************************************************)
(* Further claims about the analysis task.                                 *)
(***************************************************************************)
\* C26: within a run, once the review status COMPLETED has been written, no
\* later step of the run writes FAILED, whatever raises behind it.
C26_CompletedIsFinal ==
    [][review_status = ReviewStatus.COMPLETED
          => review_status' # ReviewStatus.FAILED]_vars

\* the dictionaries the rows of issues_found were made from
IssuesCreated == [k \in 1..Len(issues_found) |-> issues_found[k].data]

\* C27: when a run completes with at least one issue, the scores written to
\* the review are those of the scoring formulas on the issues created in the
\* run and the file count of the run, and the counts by severity written are
\* the counts of those issues.
C27_RecordedScoresAreComputed ==
    (task_pc \in {"completed", "returned"} /\ issues_found # <<>>) =>
        LET computed == calculate_quality_metrics(IssuesCreated, Len(task_files))
            recorded == review_results[1]
        IN  /\ recorded.code_quality_score = computed.code_quality_score
            /\ recorded.security_score = computed.security_score
            /\ recorded.maintainability_score = computed.maintainability_score
            /\ recorded.critical_issues = computed.critical_issues
            /\ recorded.high_issues = computed.high_issues
            /\ recorded.medium_issues = computed.medium_issues
            /\ recorded.low_issues = computed.low_issues

\* C28: no two issues stored in a run have the same identity (title,
\* file_path, line_start, category), whatever the list of files, a list that
\* names a path twice included.
C28_StoredIssuesUnique ==
    \A i, j \in 1..Len(issues_found) :
        i < j => issue_key(issues_found[i].data) # issue_key(issues_found[j].data)

\* C30: a run that has prepared the working copy of the repository and has
\* ended, by returning or by raising, has called cleanup_repository.
C30_WorkingCopyCleanedUp ==
    (task_pc \in {"returned", "raised"} /\ repo_prepared) => cleaned_up

(***************************************************************************)
(* Further claims about the diff parser.                                   *)
(***************************************************************************)
\* the well-formed hunk headers of the texts, with the numbers they state
WellFormedHeaders ==
    {[line |-> Lit.L_hunk_1_2_1_3,
      old_start |-> 1, old_count |-> 2, new_start |-> 1, new_count |-> 3],
     [line |-> Lit.L_hunk_5_7,
      old_start |-> 5, old_count |-> 1, new_start |-> 7, new_count |-> 1]}

\* the lines of a block, from line a to line b, that are marked with the
\* character mark and do not start with three of it, without the mark
MarkedLines(block, a, b, mark) ==
    LET at == Ascending({i \in a..b : /\ StartsWith(block[i], <<mark>>)
                                      /\ ~StartsWith(block[i], <<mark, mark, mark>>)})
    IN  [k \in 1..Len(at) |-> Sub(block[at[k]], 2, Len(block[at[k]]))]

\* what the hunks of a block have to be: one for every well-formed header,
\* in the order of the headers, with the numbers of the header and the added
\* and removed lines that stand between it and the next line that starts
\* with @@
ExpectedHunks(block) ==
    LET marks == {i \in 1..Len(block) : StartsWith(block[i], Lit.S_at2)}
        good == Ascending({i \in marks : \E h \in WellFormedHeaders : h.line = block[i]})
        End(p) == IF \E m \in marks : m > p
                  THEN SetMin({m \in marks : m > p}) - 1
                  ELSE Len(block)
    IN  [k \in 1..Len(good) |->
            LET h == CHOOSE e \in WellFormedHeaders : e.line = block[good[k]]
            IN  [old_start |-> h.old_start, old_count |-> h.old_count,
                 new_start |-> h.new_start, new_count |-> h.new_count,
                 added |-> MarkedLines(block, good[k] + 1, End(good[k]), "+"),
                 removed |-> MarkedLines(block, good[k] + 1, End(good[k]), "-")]]

\* the hunks of a parsed file, reduced to the same fields
HunkOutline(hunks) ==
    [k \in 1..Len(hunks) |->
        [old_start |-> hunks[k].old_start, old_count |-> hunks[k].old_count,
         new_start |-> hunks[k].new_start, new_count |-> hunks[k].new_count,
         added |-> [i \in 1..Len(hunks[k].added_lines) |-> hunks[k].added_lines[i].content],
         removed |-> [i \in 1..Len(hunks[k].removed_lines) |->
                        hunks[k].removed_lines[i].content]]]

\* C15: whenever the parser adds a file to its list, the hunks of that file
\* are those of the well-formed hunk headers of its block, one for each, in
\* the order of the headers in the text; a malformed header gives no hunk and
\* leaves the hunk before it and the hunk after it as they are without it.
C15_HunksFollowHeaders ==
    [][(/\ diff_pc = "split"
        /\ diff_i <= Len(files)
        /\ Len(parsed_files') = Len(parsed_files) + 1)
          => HunkOutline(parsed_files'[Len(parsed_files')].hunks)
                 = ExpectedHunks(files[diff_i])]_vars

\* the first file had a hunk with an added line, then a malformed header,
\* then a well-formed one: it was parsed into the two hunks, in that order
C15_Witness ==
    /\ diff_pc = "done"
    /\ files # <<>>
    /\ diff_result.files # <<>>
    /\ \E i, j, k \in 1..Len(files[1]) :
           /\ i < j /\ j < k
           /\ files[1][i] = Lit.L_hunk_1_2_1_3
           /\ files[1][j] = Lit.L_hunk_bad
           /\ files[1][k] = Lit.L_hunk_5_7
    /\ Len(diff_result.files[1].hunks) = 2
    /\ diff_result.files[1].hunks[1].old_start = 1
    /\ diff_result.files[1].hunks[1].added_lines # <<>>
    /\ diff_result.files[1].hunks[2].old_start = 5

\* the file blocks of a diff text: each runs from a line that starts with
\* "diff --git " up to the next such line, and ends where the text ends
FileBlocks(text) ==
    LET heads == Ascending({i \in 1..Len(text) : StartsWith(text[i], Lit.S_diff_git \o <<" ">>)})
    IN  [k \in 1..Len(heads) |->
            IF k < Len(heads)
            THEN SubSeq(text, heads[k], heads[k + 1] - 1) \o <<Lit.L_empty>>
            ELSE SubSeq(text, heads[k], Len(text))]

\* C16: when a diff of several files holds a file block from which no
\* file_path can be extracted, the result lists the other file blocks, each
\* parsed as it stands, in the order of the input, and nothing else.
C16_PathlessBlockDropped ==
    (/\ diff_pc = "done"
     /\ Len(FileBlocks(diff_text)) >= 2
     /\ \E k \in 1..Len(FileBlocks(diff_text)) :
            _extract_file_info(FileBlocks(diff_text)[k]) = <<>>)
        => diff_result.files
               = Flatten([k \in 1..Len(FileBlocks(diff_text)) |->
                             _parse_file_diff(FileBlocks(diff_text)[k])])

(***************************************************************************)
(* Further claims about analyze_file.                                      *)
(***************************************************************************)
\* len(file_content.strip()) == 0, or len(file_content) > 1024 * 1024
BlankOrOversize(content) ==
    \/ IsBlankText(ContentLines(content))
    \/ ContentLength(content) > MaxContentLength

\* C19: for a content that is empty after trimming white space or longer
\* than 1 MiB, whatever the extension of the path, analyze_file returns the
\* empty list, and the call leaves the analyzers as they were: none of them
\* has run.
C19_BlankOrOversizeSkipped ==
    [][(/\ file_pc = "call"
        /\ file_pc' = "returned"
        /\ BlankOrOversize(file_content))
          => (file_result' = <<>> /\ UNCHANGED astVars)]_vars

\* app.py with a hardcoded password and a comment of more than 1 MiB came
\* back with no issue
C19_Witness ==
    /\ file_pc = "returned"
    /\ file_path = Py.app_py
    /\ file_content = <<Stmt.PwdLong, Stmt.Comment>>
    /\ ~IsBlankText(ContentLines(file_content))
    /\ ContentLength(file_content) > MaxContentLength
    /\ file_result = <<>>
    /\ heap = <<<<>>>>

\* C20: every issue of the list analyze_file returns, whichever analysis it
\* comes from, has line_start >= 1, and its line_end is absent or
\* >= line_start.
C20_LineRangesWellFormed ==
    file_pc = "returned" =>
        \A i \in 1..Len(file_result) :
            /\ file_result[i].line_start >= 1
            /\ \/ file_result[i].line_end = <<>>
               \/ file_result[i].line_end[1] >= file_result[i].line_start

(***************************************************************************)
(* Claims about the scan of the rule table.                                *)
(***************************************************************************)
\* the rule compiles
WellFormed(pattern_rule) == ~finditer(pattern_rule.pattern, <<>>).raises

\* every match of a rule in the scanned content, as the issue reported for it
AllMatchesOf(pattern_rule) ==
    LET text == ContentText(scan_content)
        at == finditer(pattern_rule.pattern, text).matches
    IN  [k \in 1..Len(at) |->
            PatternIssue(pattern_rule.title, pattern_rule.severity,
                         pattern_rule.rule_id, LineNumberAt(text, at[k]))]

\* C21: a rule whose expression is malformed is skipped and the scan goes
\* on: the list returned holds, in the order of the table, all the matches
\* of every other rule, whether the malformed rule stands before or after it.
C21_MalformedRuleSkipped ==
    scan_pc = "returned" =>
        scan_issues = Flatten([r \in 1..Len(patterns) |->
                          IF WellFormed(patterns[r]) THEN AllMatchesOf(patterns[r])
                          ELSE <<>>])

\* the malformed rule stood between the password rule and the eval rule,
\* and both reported their match
C21_Witness ==
    /\ scan_pc = "returned"
    /\ patterns = <<security_patterns("python")[1], MalformedRule,
                    security_patterns("python")[2]>>
    /\ scan_content = <<Stmt.PwdLong, Stmt.Eval>>
    /\ Len(scan_issues) = 2
    /\ scan_issues[1].rule_id = "hardcoded_password" /\ scan_issues[1].line_number = 1
    /\ scan_issues[2].rule_id = "eval_usage" /\ scan_issues[2].line_number = 2

(***************************************************************************)
(* Claims about the lines of a hunk.                                       *)
(***************************************************************************)
\* every hunk of the files parsed so far
HunksParsed ==
    Flatten([f \in 1..Len(parsed_files) |-> parsed_files[f].hunks])

\* C22: in every hunk the k-th added line, counted from 0 among the added
\* lines, has the line number new_start + k, and the k-th removed line,
\* counted among the removed lines, has old_start + k: context lines and
\* lines of the other class advance neither counter.
C22_IndependentCounters ==
    \A h \in 1..Len(HunksParsed) :
        LET hunk == HunksParsed[h]
        IN  /\ \A k \in 1..Len(hunk.added_lines) :
                   hunk.added_lines[k].line_number = hunk.new_start + (k - 1)
            /\ \A k \in 1..Len(hunk.removed_lines) :
                   hunk.removed_lines[k].line_number = hunk.old_start + (k - 1)

\* a hunk at -5 +7 with an added line, a context line, a removed line: the
\* added line is line 7 and the removed line is line 5
C22_Witness ==
    /\ diff_pc = "done"
    /\ parsed_files # <<>>
    /\ parsed_files[1].hunks # <<>>
    /\ LET hunk == parsed_files[1].hunks[1]
       IN  /\ hunk.old_start = 5 /\ hunk.new_start = 7
           /\ Len(hunk.context_lines) = 1
           /\ Len(hunk.added_lines) = 1 /\ hunk.added_lines[1].line_number = 7
           /\ Len(hunk.removed_lines) = 1 /\ hunk.removed_lines[1].line_number = 5
    /\ \E i \in 1..(Len(diff_text) - 3) :
           /\ diff_text[i] = Lit.L_hunk_5_7
           /\ diff_text[i + 1] = Lit.L_add_b
           /\ diff_text[i + 2] = Lit.L_ctx_a
           /\ diff_text[i + 3] = Lit.L_del_d

\* the lines of the hunk bodies of a block (behind a well-formed header, up
\* to the next line that starts with @@) that begin with the character mark
BodyLinesLedBy(block, mark) ==
    LET marks == {i \in 1..Len(block) : StartsWith(block[i], Lit.S_at2)}
        good == {i \in marks : \E h \in WellFormedHeaders : h.line = block[i]}
        InBody(i) == \E g \in good : g < i /\ \A m \in marks : ~(g < m /\ m <= i)
    IN  {i \in 1..Len(block) : InBody(i) /\ StartsWith(block[i], <<mark>>)}

\* C23: the lines behind a hunk header are classified by their first
\* character alone: whenever the parser adds a file, its additions are the
\* number of hunk-body lines of its block that begin with '+', its deletions
\* the number of those that begin with '-', and its context lines those that
\* begin with a space.
C23_ClassifiedByLeadingCharacter ==
    [][(/\ diff_pc = "split"
        /\ diff_i <= Len(files)
        /\ Len(parsed_files') = Len(parsed_files) + 1)
          => LET parsed == parsed_files'[Len(parsed_files')]
                 block == files[diff_i]
             IN  /\ parsed.additions = Cardinality(BodyLinesLedBy(block, "+"))
                 /\ parsed.deletions = Cardinality(BodyLinesLedBy(block, "-"))
                 /\ SumSeq([k \in 1..Len(parsed.hunks) |->
                                Len(parsed.hunks[k].context_lines)])
                      = Cardinality(BodyLinesLedBy(block, " "))]_vars

\* C24: for a diff text all of whose file blocks name a path, with or
\* without lines before the first "diff --git" header, the i-th file of the
\* result has the path of the i-th header and the hunks that stand between
\* that header and the next one.
C24_HeadersKeepTheirBodies ==
    LET blocks == FileBlocks(diff_text)
    IN  (/\ diff_pc = "done"
         /\ blocks # <<>>
         /\ \A k \in 1..Len(blocks) : _extract_file_info(blocks[k]) # <<>>)
            => /\ Len(diff_result.files) = Len(blocks)
               /\ \A k \in 1..Len(blocks) :
                      /\ diff_result.files[k].file_path
                            = _extract_file_info(<<blocks[k][1]>>)[1].file_path
                      /\ HunkOutline(diff_result.files[k].hunks) = ExpectedHunks(blocks[k])

\* the line git writes for a binary file: Binary files ... differ
IsBinaryHeader(line) ==
    StartsWith(line, Lit.S_Binary_files) /\ EndsWith(line, Lit.S_differ)

\* C25: whenever the parser adds a file, the file is marked binary only if
\* its block holds a "Binary files ... differ" header line; added, removed
\* and context lines that hold these words do not mark it.
C25_BinaryOnlyByHeader ==
    [][(/\ diff_pc = "split"
        /\ diff_i <= Len(files)
        /\ Len(parsed_files') = Len(parsed_files) + 1)
          => (parsed_files'[Len(parsed_files')].is_binary
                 => \E i \in 1..Len(files[diff_i]) : IsBinaryHeader(files[diff_i][i]))]_vars

(***************************************************************************)
(* The specifications.                                                     *)
(***************************************************************************)
AggNext ==
    \/ Deduplicate /\ UNCHANGED <<scoreVars, diffVars, astVars, fileVars, taskVars, scanVars>>
    \/ Prioritize /\ UNCHANGED <<scoreVars, diffVars, astVars, fileVars, taskVars, scanVars>>

InitAgg == AggInit /\ ScoreIdle /\ DiffIdle /\ AstIdle /\ FileIdle /\ TaskIdle /\ ScanIdle

SpecAgg == InitAgg /\ [][AggNext]_vars

ScoreNext ==
    \/ CalculateQualityMetrics /\ UNCHANGED <<aggVars, diffVars, astVars, fileVars, taskVars, scanVars>>
    \/ CalculateAgain /\ UNCHANGED <<aggVars, diffVars, astVars, fileVars, taskVars, scanVars>>

InitScore == ScoreInit /\ AggIdle /\ DiffIdle /\ AstIdle /\ FileIdle /\ TaskIdle /\ ScanIdle

SpecScore == InitScore /\ [][ScoreNext]_vars

DiffNext ==
    \/ ParseDiffEmpty /\ UNCHANGED <<aggVars, scoreVars, astVars, fileVars, taskVars, scanVars>>
    \/ SplitDiffByFiles /\ UNCHANGED <<aggVars, scoreVars, astVars, fileVars, taskVars, scanVars>>
    \/ ParseFileDiff /\ UNCHANGED <<aggVars, scoreVars, astVars, fileVars, taskVars, scanVars>>
    \/ ParseDiffReturn /\ UNCHANGED <<aggVars, scoreVars, astVars, fileVars, taskVars, scanVars>>

InitDiff == DiffInit /\ AggIdle /\ ScoreIdle /\ AstIdle /\ FileIdle /\ TaskIdle /\ ScanIdle

SpecDiff == InitDiff /\ [][DiffNext]_vars

AstNext ==
    \/ \E c \in Callers :
          AnalyzeBegin(c) /\ UNCHANGED <<aggVars, scoreVars, diffVars, fileVars, taskVars, scanVars>>
    \/ \E c \in Callers :
          AddIssue(c) /\ UNCHANGED <<aggVars, scoreVars, diffVars, fileVars, taskVars, scanVars>>
    \/ \E c \in Callers :
          AnalyzeReturn(c) /\ UNCHANGED <<aggVars, scoreVars, diffVars, fileVars, taskVars, scanVars>>
    \/ \E c \in Callers :
          AnalyzeRaise(c) /\ UNCHANGED <<aggVars, scoreVars, diffVars, fileVars, taskVars, scanVars>>

InitAst == AstInit /\ AggIdle /\ ScoreIdle /\ DiffIdle /\ FileIdle /\ TaskIdle /\ ScanIdle

\* one call of analyze
SpecAst == InitAst /\ [][AstNext]_vars

InitAstPar == AstParInit /\ AggIdle /\ ScoreIdle /\ DiffIdle /\ FileIdle /\ TaskIdle /\ ScanIdle

\* two calls of analyze in two threads, which may switch between any two
\* statements
SpecAstPar == InitAstPar /\ [][AstNext]_vars

AstSeqNext ==
    \/ \E c \in Callers :
          AnalyzeBegin(c) /\ UNCHANGED <<aggVars, scoreVars, diffVars, fileVars, taskVars, scanVars>>
    \/ \E c \in Callers :
          AddIssue(c) /\ UNCHANGED <<aggVars, scoreVars, diffVars, fileVars, taskVars, scanVars>>
    \/ \E c \in Callers :
          AnalyzeReturn(c) /\ UNCHANGED <<aggVars, scoreVars, diffVars, fileVars, taskVars, scanVars>>
    \/ \E c \in Callers :
          AnalyzeRaise(c) /\ UNCHANGED <<aggVars, scoreVars, diffVars, fileVars, taskVars, scanVars>>
    \/ NextCall /\ UNCHANGED <<aggVars, scoreVars, diffVars, fileVars, taskVars, scanVars>>

InitAstSeq ==
    AstSeqInit /\ AggIdle /\ ScoreIdle /\ DiffIdle /\ FileIdle /\ TaskIdle /\ ScanIdle

\* two calls of analyze on one analyzer, one after the other
SpecAstSeq == InitAstSeq /\ [][AstSeqNext]_vars

FileNext ==
    \/ AnalyzeFileSkip /\ UNCHANGED <<aggVars, scoreVars, diffVars, taskVars, scanVars>>
    \/ AnalyzeFile /\ UNCHANGED <<aggVars, scoreVars, diffVars, taskVars, scanVars>>

InitFile == FileInit /\ AstIdle /\ AggIdle /\ ScoreIdle /\ DiffIdle /\ TaskIdle /\ ScanIdle

SpecFile == InitFile /\ [][FileNext]_vars

TaskNext ==
    \/ PrepareRepository /\ UNCHANGED <<aggVars, scoreVars, diffVars, astVars, fileVars, scanVars>>
    \/ PrepareRaises /\ UNCHANGED <<aggVars, scoreVars, diffVars, astVars, fileVars, scanVars>>
    \/ AnalyzeNextFile /\ UNCHANGED <<aggVars, scoreVars, diffVars, astVars, fileVars, scanVars>>
    \/ ProgressRaises /\ UNCHANGED <<aggVars, scoreVars, diffVars, astVars, fileVars, scanVars>>
    \/ CalculateAndComplete /\ UNCHANGED <<aggVars, scoreVars, diffVars, astVars, fileVars, scanVars>>
    \/ TaskReturn /\ UNCHANGED <<aggVars, scoreVars, diffVars, astVars, fileVars, scanVars>>
    \/ TaskRaiseAtEnd /\ UNCHANGED <<aggVars, scoreVars, diffVars, astVars, fileVars, scanVars>>

InitTask == TaskInit /\ AggIdle /\ ScoreIdle /\ DiffIdle /\ AstIdle /\ FileIdle /\ ScanIdle

\* one run of the analysis task
SpecTask == InitTask /\ [][TaskNext]_vars

ScanNext ==
    \/ ScanRule /\ UNCHANGED <<aggVars, scoreVars, diffVars, astVars, fileVars, taskVars>>
    \/ ScanReturn /\ UNCHANGED <<aggVars, scoreVars, diffVars, astVars, fileVars, taskVars>>

InitScan ==
    ScanInit /\ AggIdle /\ ScoreIdle /\ DiffIdle /\ AstIdle /\ FileIdle /\ TaskIdle

\* one call of _pattern_based_analysis
SpecScan == InitScan /\ [][ScanNext]_vars

====
